---- MODULE Spec2Model ----
(***************************************************************************)
(* daysApp: the monthly office-day scheduler (src/server/scheduler.rs),    *)
(* its static catalog (src/server/schema.rs), the schedules table          *)
(* (src/server/db.rs) and the schedules page that feeds the scheduler its  *)
(* history (src/client/pages/schedules_page.rs).                           *)
(*                                                                         *)
(* f64 scores are kept exact by scaling: a weight w is held as 8*w, a      *)
(* variance v as 25*v and a total score t as 200*t.  What f64 rounding     *)
(* adds to an exact score is the residue `ulp` (see total_score).          *)
(***************************************************************************)
EXTENDS Integers, Sequences, FiniteSets, TLC

VARIABLES
    employees,           \* generate_schedule: the roster argument
    past_schedules,      \* generate_schedule: id -> history list
    day_counts,          \* generate_schedule: DayCount
    schedule,            \* generate_schedule: MonthlySchedule
    flexible_employees,  \* process_fixed_schedules: first result
    fixed_employees,     \* process_fixed_schedules: second result
    grouped_employees,   \* group_by_required_days: result
    keys,                \* process_flexible_employees: sorted keys
    i,                   \* process_fixed_schedules: loop position
    key_idx,             \* process_flexible_employees: position in keys
    emp_idx,             \* process_flexible_employees: position in the bucket
    pc,                  \* generate_schedule: the phase it is in
    ref,                 \* the schedule and day-load of generate_schedule run
                         \* on the roster without the employees whose
                         \* required_days has no catalog entry, under the
                         \* same shuffles and roundings
    sel,                 \* find_best_day_combination called on its own: its
                         \* arguments and its result
    schedules_table,     \* db.rs: the schedules table, as the rows it holds
                         \* with the number of copies of each
    saved_since_clear,   \* (year, month) -> the schedule of the most recent
                         \* save_schedule_to_db call since the last
                         \* delete_all_schedules call
    load_results,        \* the load_schedule_from_db calls made: of each its
                         \* arguments and what it returned
    other,               \* a second generate_schedule call, on another
                         \* thread: its arguments and locals
    csv_export,          \* generate_csv_data called on current_schedule:
                         \* its locals and what it returned
    selected_year,       \* SchedulesPage: signal
    selected_month,      \* SchedulesPage: signal
    current_schedule,    \* SchedulesPage: signal, Option<MonthlySchedule>
    is_generating,       \* SchedulesPage: signal
    error_message,       \* SchedulesPage: signal, Option<String>
    tasks,               \* SchedulesPage: the spawned tasks not yet run
    today,               \* Local::now(), as (year, month)
    gen_call             \* the generate task that is inside the scheduler

gen_vars == <<employees, past_schedules, day_counts, schedule,
              flexible_employees, fixed_employees, grouped_employees,
              keys, i, key_idx, emp_idx, pc, ref>>

page_vars == <<schedules_table, selected_year, selected_month,
               current_schedule, is_generating, error_message, tasks, today,
               gen_call>>

db_vars == <<saved_since_clear, load_results>>

export_vars == <<csv_export>>

env_vars == <<sel, page_vars, db_vars, other, export_vars>>

vars == <<gen_vars, env_vars>>

-----------------------------------------------------------------------------
(* Bounds *)

MaxEmployees == 2
MaxFullShuffle == 3
MaxMonthsAhead == 3
MaxPendingTasks == 2
MaxKeyOrders == 2
MaxLoads == 2

-----------------------------------------------------------------------------
(* schema.rs *)

Weekday == {"Monday", "Tuesday", "Wednesday", "Thursday", "Friday"}

weekdays == <<"Monday", "Tuesday", "Wednesday", "Thursday", "Friday">>

DayCombination(days) == [days |-> days]

initialize_day_combinations_pairs_as_singles ==
    (1 :> << DayCombination(<<"Monday">>),
             DayCombination(<<"Tuesday">>),
             DayCombination(<<"Wednesday">>),
             DayCombination(<<"Thursday">>),
             DayCombination(<<"Friday">>) >>)
 @@ (2 :> << DayCombination(<<"Monday">>),
             DayCombination(<<"Tuesday">>),
             DayCombination(<<"Wednesday">>),
             DayCombination(<<"Thursday">>),
             DayCombination(<<"Friday">>) >>)
 @@ (3 :> << DayCombination(<<"Monday", "Wednesday", "Friday">>) >>)
 @@ (5 :> << DayCombination(<<"Monday", "Tuesday", "Wednesday",
                              "Thursday", "Friday">>) >>)

initialize_day_combinations_second_triple ==
    (1 :> << DayCombination(<<"Monday">>),
             DayCombination(<<"Tuesday">>),
             DayCombination(<<"Wednesday">>),
             DayCombination(<<"Thursday">>),
             DayCombination(<<"Friday">>) >>)
 @@ (2 :> << DayCombination(<<"Monday", "Wednesday">>),
             DayCombination(<<"Monday", "Thursday">>),
             DayCombination(<<"Monday", "Friday">>),
             DayCombination(<<"Tuesday", "Thursday">>),
             DayCombination(<<"Tuesday", "Friday">>),
             DayCombination(<<"Wednesday", "Friday">>) >>)
 @@ (3 :> << DayCombination(<<"Monday", "Wednesday", "Friday">>),
             DayCombination(<<"Tuesday", "Thursday", "Friday">>) >>)
 @@ (5 :> << DayCombination(<<"Monday", "Tuesday", "Wednesday",
                              "Thursday", "Friday">>) >>)

initialize_day_combinations_adjacent_pair ==
    (1 :> << DayCombination(<<"Monday">>),
             DayCombination(<<"Tuesday">>),
             DayCombination(<<"Wednesday">>),
             DayCombination(<<"Thursday">>),
             DayCombination(<<"Friday">>) >>)
 @@ (2 :> << DayCombination(<<"Monday", "Tuesday">>),
             DayCombination(<<"Monday", "Thursday">>),
             DayCombination(<<"Monday", "Friday">>),
             DayCombination(<<"Tuesday", "Thursday">>),
             DayCombination(<<"Tuesday", "Friday">>),
             DayCombination(<<"Wednesday", "Friday">>) >>)
 @@ (3 :> << DayCombination(<<"Monday", "Wednesday", "Friday">>) >>)
 @@ (5 :> << DayCombination(<<"Monday", "Tuesday", "Wednesday",
                              "Thursday", "Friday">>) >>)

initialize_day_combinations ==
    (1 :> << DayCombination(<<"Monday">>),
             DayCombination(<<"Tuesday">>),
             DayCombination(<<"Wednesday">>),
             DayCombination(<<"Thursday">>),
             DayCombination(<<"Friday">>) >>)
 @@ (2 :> << DayCombination(<<"Monday", "Wednesday">>),
             DayCombination(<<"Monday", "Thursday">>),
             DayCombination(<<"Monday", "Friday">>),
             DayCombination(<<"Tuesday", "Thursday">>),
             DayCombination(<<"Tuesday", "Friday">>),
             DayCombination(<<"Wednesday", "Friday">>) >>)
 @@ (3 :> << DayCombination(<<"Monday", "Wednesday", "Friday">>) >>)
 @@ (5 :> << DayCombination(<<"Monday", "Tuesday", "Wednesday",
                              "Thursday", "Friday">>) >>)

ScheduleGenerator ==
    [weekdays |-> weekdays, day_combinations |-> initialize_day_combinations]

(* Option<T>: None is the empty sequence, Some(x) the sequence of x *)
None == <<>>

Some(x) == <<x>>

day_combinations_get_or_single(num_days) ==
    IF num_days \in DOMAIN ScheduleGenerator.day_combinations
    THEN Some(ScheduleGenerator.day_combinations[num_days])
    ELSE Some(ScheduleGenerator.day_combinations[1])

(* scheduler.rs:104: generator.day_combinations.get(&num_days) *)
day_combinations_get(num_days) ==
    IF num_days \in DOMAIN ScheduleGenerator.day_combinations
    THEN Some(ScheduleGenerator.day_combinations[num_days])
    ELSE None

Employee(id, required_days, fixed_days) ==
    [id |-> id, required_days |-> required_days, fixed_days |-> fixed_days]

-----------------------------------------------------------------------------
(* Sequence helpers *)

Range(s) == {s[k] : k \in DOMAIN s}

RECURSIVE SumSeq(_)
SumSeq(s) == IF s = <<>> THEN 0 ELSE s[1] + SumSeq(Tail(s))

Rotate(s, r) == [k \in 1..Len(s) |-> s[((k - 1 + r) % Len(s)) + 1]]

Reverse(s) == [k \in 1..Len(s) |-> s[Len(s) + 1 - k]]

Permuted(s) ==
    {[k \in 1..Len(s) |-> s[p[k]]] : p \in Permutations(1..Len(s))}

(* scheduler.rs:85, group.shuffle(&mut rng): every permutation of a group  *)
(* of at most MaxFullShuffle employees; of a longer group its roster order *)
(* and the reverse of it.                                                  *)
ShuffleGroup(group) ==
    IF Len(group) <= MaxFullShuffle
    THEN Permuted(group)
    ELSE {group, Reverse(group)}

(* scheduler.rs:137, shuffled_combos.shuffle(&mut rng): every permutation  *)
(* of a list of at most MaxFullShuffle candidates; of a longer list its    *)
(* rotations, which put every candidate at every position and every pair   *)
(* of candidates in both orders.                                           *)
ShuffleOutcomes(available_combos) ==
    IF Len(available_combos) <= MaxFullShuffle
    THEN Permuted(available_combos)
    ELSE {Rotate(available_combos, r) : r \in 0..(Len(available_combos) - 1)}

RECURSIVE SortDescending_ascending(_)
SortDescending_ascending(S) ==
    IF S = {} THEN <<>>
    ELSE LET m == CHOOSE x \in S : \A y \in S : x <= y
         IN <<m>> \o SortDescending_ascending(S \ {m})

(* scheduler.rs:99-100: the keys, larger first *)
RECURSIVE SortDescending(_)
SortDescending(S) ==
    IF S = {} THEN <<>>
    ELSE LET m == CHOOSE x \in S : \A y \in S : y <= x
         IN <<m>> \o SortDescending(S \ {m})

-----------------------------------------------------------------------------
(* scheduler.rs: the assignment step shared by both phases *)

(* scheduler.rs:56-61 and 116-121: push the employee on the day's roster   *)
(* and count the day, unless the id is already on that roster.  `st` is    *)
(* the pair [schedule, day_counts].                                        *)
AssignDay_push_always(st, employee, day) ==
    IF day \in DOMAIN st.schedule
    THEN [schedule   |-> [st.schedule EXCEPT ![day] = Append(@, employee)],
          day_counts |-> [st.day_counts EXCEPT ![day] = @ + 1]]
    ELSE st

AssignDay_count_always(st, employee, day) ==
    IF day \in DOMAIN st.schedule
    THEN [schedule   |-> IF ~ \E k \in DOMAIN st.schedule[day] :
                                 st.schedule[day][k].id = employee.id
                         THEN [st.schedule EXCEPT ![day] = Append(@, employee)]
                         ELSE st.schedule,
          day_counts |-> [st.day_counts EXCEPT ![day] = @ + 1]]
    ELSE st

AssignDay_moves_to_end(st, employee, day) ==
    IF day \in DOMAIN st.schedule
    THEN IF ~ \E k \in DOMAIN st.schedule[day] :
                 st.schedule[day][k].id = employee.id
         THEN [schedule   |-> [st.schedule EXCEPT
                                 ![day] = Append(@, employee)],
               day_counts |-> [st.day_counts EXCEPT ![day] = @ + 1]]
         ELSE [schedule   |-> [st.schedule EXCEPT
                                 ![day] = Append(SelectSeq(@, LAMBDA e :
                                                     e.id # employee.id),
                                                 employee)],
               day_counts |-> st.day_counts]
    ELSE st

AssignDay(st, employee, day) ==
    IF day \in DOMAIN st.schedule
    THEN IF ~ \E k \in DOMAIN st.schedule[day] :
                 st.schedule[day][k].id = employee.id
         THEN [schedule   |-> [st.schedule EXCEPT
                                 ![day] = Append(@, employee)],
               day_counts |-> [st.day_counts EXCEPT ![day] = @ + 1]]
         ELSE st
    ELSE st

RECURSIVE AssignDays_skip_last(_, _, _)
AssignDays_skip_last(st, employee, days) ==
    IF Len(days) <= 1 THEN st
    ELSE AssignDays_skip_last(AssignDay(st, employee, Head(days)),
                              employee, Tail(days))

RECURSIVE AssignDays(_, _, _)
AssignDays(st, employee, days) ==
    IF days = <<>> THEN st
    ELSE AssignDays(AssignDay(st, employee, Head(days)), employee, Tail(days))

-----------------------------------------------------------------------------
(* scheduler.rs: find_best_day_combination *)

lookback_limit == 2

repetition_weight == 3

F64_INFINITY == -1

recent_schedules_keeps_all(past_employee_schedules) ==
    past_employee_schedules

(* scheduler.rs:150-154 *)
recent_schedules(past_employee_schedules) ==
    IF Len(past_employee_schedules) > lookback_limit
    THEN SubSeq(past_employee_schedules,
                Len(past_employee_schedules) - lookback_limit + 1,
                Len(past_employee_schedules))
    ELSE past_employee_schedules

(* scheduler.rs:158, times 8: 1.0 - (i / n * 0.75), i counted from 0 *)
recency_weight(idx, n) == 8 - ((6 * idx) \div n)

(* scheduler.rs:143-164, times 8; a weekday without an entry reads as 0 *)
past_day_frequencies(employee, past) ==
    IF employee.id \in DOMAIN past
    THEN LET recent == recent_schedules(past[employee.id])
         IN [d \in Weekday |->
               SumSeq([k \in 1..Len(recent) |->
                         IF d \in recent[k]
                         THEN recency_weight(k - 1, Len(recent))
                         ELSE 0])]
    ELSE [d \in Weekday |-> 0]

temp_counts_without_candidate(counts, days) == counts

(* scheduler.rs:168-171 *)
RECURSIVE temp_counts(_, _)
temp_counts(counts, days) ==
    IF days = <<>> THEN counts
    ELSE temp_counts([counts EXCEPT ![Head(days)] = @ + 1], Tail(days))

(* scheduler.rs:174-179, times 25: with n = 5 values and total T,          *)
(* sum (c - T/n)^2 = sum (n*c - T)^2 / n^2                                 *)
variance(counts) ==
    LET n == Cardinality(DOMAIN counts)
        T == SumSeq([k \in 1..Len(weekdays) |-> counts[weekdays[k]]])
    IN SumSeq([k \in 1..Len(weekdays) |->
                 (n * counts[weekdays[k]] - T) * (n * counts[weekdays[k]] - T)])

(* scheduler.rs:182-186, times 8 *)
repetition_score(combo, frequencies) ==
    SumSeq([k \in 1..Len(combo.days) |-> frequencies[combo.days[k]]])

total_score_without_repetition(combo, counts, frequencies) ==
    8 * variance(temp_counts(counts, combo.days))

(* scheduler.rs:166-190, times 200: the exact value of total_score *)
total_score(combo, counts, frequencies) ==
    8 * variance(temp_counts(counts, combo.days))
    + repetition_weight * 25 * repetition_score(combo, frequencies)

(* scheduler.rs:166-190: total_score of every candidate *)
combo_scores(available_combos, counts, employee, past) ==
    LET frequencies == past_day_frequencies(employee, past)
    IN [combo \in Range(available_combos) |->
          total_score(combo, counts, frequencies)]

(* The f64 value of a total_score, as the exact score doubled with the     *)
(* rounding residue in the last place.  The variance is an f64 sum of five *)
(* squares taken in the iteration order of a HashMap (scheduler.rs:174),   *)
(* which the build does not fix, and f64 addition is not associative: two  *)
(* candidates whose exact scores are equal can differ in the last bit,     *)
(* while exact scores that differ do so by at least 1/40.  ulp[combo] in   *)
(* {0, 1} is that last bit.                                                *)
rounded(scores, ulp, combo) == 2 * scores[combo] + ulp[combo]

RECURSIVE ScanCombos_keeps_largest(_, _, _, _, _, _)
ScanCombos_keeps_largest(shuffled_combos, j, best_combo, min_score, scores, ulp) ==
    IF j > Len(shuffled_combos) THEN best_combo
    ELSE LET combo == shuffled_combos[j]
             score == rounded(scores, ulp, combo)
         IN IF min_score = F64_INFINITY \/ score > min_score
            THEN ScanCombos_keeps_largest(shuffled_combos, j + 1, combo, score,
                                          scores, ulp)
            ELSE ScanCombos_keeps_largest(shuffled_combos, j + 1, best_combo,
                                          min_score, scores, ulp)

(* scheduler.rs:166-196: the scan over shuffled_combos from position j *)
RECURSIVE ScanCombos(_, _, _, _, _, _)
ScanCombos(shuffled_combos, j, best_combo, min_score, scores, ulp) ==
    IF j > Len(shuffled_combos) THEN best_combo
    ELSE LET combo == shuffled_combos[j]
             score == rounded(scores, ulp, combo)
         IN IF min_score = F64_INFINITY \/ score < min_score
            THEN ScanCombos(shuffled_combos, j + 1, combo, score, scores, ulp)
            ELSE ScanCombos(shuffled_combos, j + 1, best_combo, min_score,
                            scores, ulp)

(* scheduler.rs:139-198, given the scores of the candidates *)
select_best(shuffled_combos, scores, ulp) ==
    ScanCombos(shuffled_combos, 1, shuffled_combos[1], F64_INFINITY,
               scores, ulp)

(* scheduler.rs:129-199; shuffled_combos is the outcome of the shuffle at  *)
(* line 137 and ulp the rounding residues of the scores                    *)
find_best_day_combination(shuffled_combos, counts, employee, past, ulp) ==
    select_best(shuffled_combos,
                combo_scores(shuffled_combos, counts, employee, past), ulp)

(* The residues a build can produce for a candidate list: every pattern   *)
(* for a list of at most MaxFullShuffle candidates; for a longer list the  *)
(* pattern without a difference and the patterns in which one candidate    *)
(* rounds below all others, which let every candidate that is tied at the  *)
(* exact minimum win at every position of the shuffled list.               *)
Roundings(available_combos) ==
    LET C == Range(available_combos)
    IN IF Len(available_combos) <= MaxFullShuffle
       THEN [C -> {0, 1}]
       ELSE {[c \in C |-> 0]}
            \cup {[c \in C |-> IF c = x THEN 0 ELSE 1] : x \in C}

-----------------------------------------------------------------------------
(* scheduler.rs: generate_schedule as a step machine *)

(* scheduler.rs:13-23 *)
EmptyDayCounts == [d \in Range(ScheduleGenerator.weekdays) |-> 0]

EmptySchedule_without_friday ==
    [d \in Range(ScheduleGenerator.weekdays) \ {"Friday"} |-> <<>>]

EmptySchedule == [d \in Range(ScheduleGenerator.weekdays) |-> <<>>]

(* an employee that quota-based assignment passes over: no fixed days and  *)
(* no catalog entry for its required_days                                  *)
IsUnmapped(employee) ==
    /\ employee.fixed_days = <<>>
    /\ employee.required_days \notin DOMAIN ScheduleGenerator.day_combinations

process_fixed_schedules_keeps_fixed ==
    /\ pc = "process_fixed"
    /\ i <= Len(employees)
    /\ LET employee == employees[i]
           st == AssignDays([schedule |-> schedule, day_counts |-> day_counts],
                            employee, employee.fixed_days)
       IN IF employee.fixed_days # <<>>
          THEN /\ schedule' = st.schedule
               /\ day_counts' = st.day_counts
               /\ fixed_employees' = Append(fixed_employees, employee)
               /\ flexible_employees' = Append(flexible_employees, employee)
               /\ ref' = AssignDays(ref, employee, employee.fixed_days)
          ELSE /\ flexible_employees' = Append(flexible_employees, employee)
               /\ UNCHANGED <<schedule, day_counts, fixed_employees, ref>>
    /\ i' = i + 1
    /\ UNCHANGED <<employees, past_schedules, grouped_employees, keys,
                   key_idx, emp_idx, pc>>
    /\ UNCHANGED env_vars

(* scheduler.rs:52-67: one iteration of the loop over the roster *)
process_fixed_schedules ==
    /\ pc = "process_fixed"
    /\ i <= Len(employees)
    /\ LET employee == employees[i]
           st == AssignDays([schedule |-> schedule, day_counts |-> day_counts],
                            employee, employee.fixed_days)
       IN IF employee.fixed_days # <<>>
          THEN /\ schedule' = st.schedule
               /\ day_counts' = st.day_counts
               /\ fixed_employees' = Append(fixed_employees, employee)
               /\ UNCHANGED flexible_employees
               /\ ref' = AssignDays(ref, employee, employee.fixed_days)
          ELSE /\ flexible_employees' = Append(flexible_employees, employee)
               /\ UNCHANGED <<schedule, day_counts, fixed_employees, ref>>
    /\ i' = i + 1
    /\ UNCHANGED <<employees, past_schedules, grouped_employees, keys,
                   key_idx, emp_idx, pc>>
    /\ UNCHANGED env_vars

Bucket_whole_roster(emps, days) == emps

(* scheduler.rs:75-80: the bucket of one required_days value, roster order *)
Bucket(emps, days) ==
    SelectSeq(emps, LAMBDA e : e.required_days = days)

group_by_required_days_before_fixed_ends ==
    /\ pc = "process_fixed"
    /\ i >= Len(employees)
    /\ LET ks == {e.required_days : e \in Range(flexible_employees)}
       IN /\ \E g \in [ks -> UNION {ShuffleGroup(Bucket(flexible_employees, k))
                                      : k \in ks}] :
                /\ \A k \in ks :
                      g[k] \in ShuffleGroup(Bucket(flexible_employees, k))
                /\ grouped_employees' = g
          /\ keys' = SortDescending(ks)
    /\ key_idx' = 1
    /\ emp_idx' = 1
    /\ pc' = "process_flexible"
    /\ UNCHANGED <<employees, past_schedules, day_counts, schedule,
                   flexible_employees, fixed_employees, i, ref>>
    /\ UNCHANGED env_vars

(* scheduler.rs:72-89 with 98-100: group, shuffle each group, sort the keys *)
group_by_required_days ==
    /\ pc = "process_fixed"
    /\ i > Len(employees)
    /\ LET ks == {e.required_days : e \in Range(flexible_employees)}
       IN /\ \E g \in [ks -> UNION {ShuffleGroup(Bucket(flexible_employees, k))
                                      : k \in ks}] :
                /\ \A k \in ks :
                      g[k] \in ShuffleGroup(Bucket(flexible_employees, k))
                /\ grouped_employees' = g
          /\ keys' = SortDescending(ks)
    /\ key_idx' = 1
    /\ emp_idx' = 1
    /\ pc' = "process_flexible"
    /\ UNCHANGED <<employees, past_schedules, day_counts, schedule,
                   flexible_employees, fixed_employees, i, ref>>
    /\ UNCHANGED env_vars

(* scheduler.rs:105-123: one iteration of the loop over a bucket.  The     *)
(* reference run selects for the same employee from its own day-load with  *)
(* the same shuffle and rounding; it has no employee to select for when    *)
(* the employee is one it leaves out.                                      *)
process_flexible_employees ==
    /\ pc = "process_flexible"
    /\ key_idx <= Len(keys)
    /\ day_combinations_get(keys[key_idx]) # None
    /\ emp_idx <= Len(grouped_employees[keys[key_idx]])
    /\ LET available_combos == day_combinations_get(keys[key_idx])[1]
           employee == grouped_employees[keys[key_idx]][emp_idx]
       IN \E scores \in {combo_scores(available_combos, day_counts,
                                      employee, past_schedules)},
             ref_scores \in {combo_scores(available_combos, ref.day_counts,
                                          employee, past_schedules)} :
          \E best \in
               { << select_best(shuffled_combos, scores, ulp),
                    select_best(shuffled_combos, ref_scores, ulp) >> :
                   shuffled_combos \in ShuffleOutcomes(available_combos),
                   ulp \in Roundings(available_combos) } :
             LET best_combo == best[1]
                 st == AssignDays([schedule |-> schedule,
                                   day_counts |-> day_counts],
                                  employee, best_combo.days)
             IN /\ schedule' = st.schedule
                /\ day_counts' = st.day_counts
                /\ ref' = IF IsUnmapped(employee) THEN ref
                          ELSE AssignDays(ref, employee, best[2].days)
    /\ emp_idx' = emp_idx + 1
    /\ UNCHANGED <<employees, past_schedules, flexible_employees,
                   fixed_employees, grouped_employees, keys, i, key_idx, pc>>
    /\ UNCHANGED env_vars

(* scheduler.rs:102-104: the bucket is exhausted, or its key has no entry  *)
(* in the catalog and the bucket is passed over                            *)
next_num_days ==
    /\ pc = "process_flexible"
    /\ key_idx <= Len(keys)
    /\ \/ day_combinations_get(keys[key_idx]) = None
       \/ emp_idx > Len(grouped_employees[keys[key_idx]])
    /\ key_idx' = key_idx + 1
    /\ emp_idx' = 1
    /\ UNCHANGED <<employees, past_schedules, day_counts, schedule,
                   flexible_employees, fixed_employees, grouped_employees,
                   keys, i, pc, ref>>
    /\ UNCHANGED env_vars

(* scheduler.rs:41: the schedule is returned *)
return_schedule ==
    /\ pc = "process_flexible"
    /\ key_idx > Len(keys)
    /\ pc' = "done"
    /\ UNCHANGED <<employees, past_schedules, day_counts, schedule,
                   flexible_employees, fixed_employees, grouped_employees,
                   keys, i, key_idx, emp_idx, ref>>
    /\ UNCHANGED env_vars

generate_schedule ==
    \/ process_fixed_schedules
    \/ group_by_required_days
    \/ process_flexible_employees
    \/ next_num_days
    \/ return_schedule

-----------------------------------------------------------------------------
(* The rosters and histories generate_schedule is started on *)

RequiredDaysValues == {1, 2, 3, 4, 5}

FixedDaysValues ==
    { <<>>, <<"Tuesday">>, <<"Monday", "Wednesday", "Monday">> }

HistoryValues ==
    { <<>>,
      << {"Monday"} >>,
      << {"Monday", "Wednesday"}, {"Wednesday"}, {"Tuesday", "Friday"} >> }

(* ids are the primary key of the employees table (db.rs:33): distinct *)
Rosters(n) ==
    { [k \in 1..n |-> Employee(k, r[k], f[k])] :
        r \in [1..n -> RequiredDaysValues], f \in [1..n -> FixedDaysValues] }

(* a history for the first employee only, for every employee, or for none *)
PastSchedulesValues(emps) ==
    { <<>> }
    \cup { [k \in {1} |-> h] : h \in HistoryValues }
    \cup { [k \in 1..Len(emps) |-> h] : h \in HistoryValues }

(* scheduler.rs:13-23: the state generate_schedule starts from *)
StartGeneration(emps, past) ==
    /\ employees = emps
    /\ past_schedules = past
    /\ day_counts = EmptyDayCounts
    /\ schedule = EmptySchedule
    /\ flexible_employees = <<>>
    /\ fixed_employees = <<>>
    /\ grouped_employees = <<>>
    /\ keys = <<>>
    /\ i = 1
    /\ key_idx = 1
    /\ emp_idx = 1
    /\ pc = "process_fixed"
    /\ ref = [schedule |-> EmptySchedule, day_counts |-> EmptyDayCounts]

(* no generate_schedule call is in progress *)
GenIdle ==
    /\ employees = <<>>
    /\ past_schedules = <<>>
    /\ day_counts = EmptyDayCounts
    /\ schedule = EmptySchedule
    /\ flexible_employees = <<>>
    /\ fixed_employees = <<>>
    /\ grouped_employees = <<>>
    /\ keys = <<>>
    /\ i = 1
    /\ key_idx = 1
    /\ emp_idx = 1
    /\ pc = "idle"
    /\ ref = [schedule |-> EmptySchedule, day_counts |-> EmptyDayCounts]

(* the schedules page is not mounted *)
PageUnmounted ==
    /\ schedules_table = <<>>
    /\ selected_year = 2025
    /\ selected_month = 1
    /\ current_schedule = None
    /\ is_generating = FALSE
    /\ error_message = None
    /\ tasks = <<>>
    /\ today = <<2025, 1>>
    /\ gen_call = None
    /\ saved_since_clear = <<>>
    /\ load_results = <<>>
    /\ csv_export = None

Init ==
    /\ \E n \in 0..MaxEmployees :
         \E emps \in Rosters(n) :
           \E past \in PastSchedulesValues(emps) :
             StartGeneration(emps, past)
    /\ sel = None
    /\ PageUnmounted
    /\ other = None

Next == generate_schedule

Spec == Init /\ [][Next]_vars

(* the position of the call in its loops *)
loop_position == <<i, key_idx, emp_idx, pc>>

(* scheduler.rs:102-105: what a step of process_flexible_employees does to *)
(* the position of the call; the selector returns a candidate whenever the *)
(* list has one, so this is enabled exactly when that step is              *)
selection_advances ==
    /\ pc = "process_flexible"
    /\ key_idx <= Len(keys)
    /\ day_combinations_get(keys[key_idx]) # None
    /\ emp_idx <= Len(grouped_employees[keys[key_idx]])
    /\ emp_idx' = emp_idx + 1
    /\ UNCHANGED <<i, key_idx, pc>>

(* generate_schedule is one sequential function call (scheduler.rs:7-42):  *)
(* the thread that runs it takes the next step whenever there is one       *)
SpecLive ==
    /\ Init
    /\ [][Next]_vars
    /\ WF_loop_position(process_fixed_schedules)
    /\ WF_loop_position(group_by_required_days)
    /\ WF_loop_position(selection_advances)
    /\ WF_loop_position(next_num_days)
    /\ WF_loop_position(return_schedule)

-----------------------------------------------------------------------------
(* generate_schedule on ten flexible employees with required_days = 1, no  *)
(* fixed days and no history                                               *)

BalanceRoster == [k \in 1..10 |-> Employee(k, 1, <<>>)]

InitBalance ==
    /\ StartGeneration(BalanceRoster, [k \in 1..Len(BalanceRoster) |-> <<>>])
    /\ sel = None
    /\ PageUnmounted
    /\ other = None

SpecBalance == InitBalance /\ [][Next]_vars

-----------------------------------------------------------------------------
(* Two generate_schedule calls on two threads.  The first call is the one  *)
(* held in the variables of generate_schedule above; the arguments and     *)
(* locals of the second are the fields of `other`.  Each call builds its   *)
(* own ScheduleGenerator (scheduler.rs:263) and draws from the generator   *)
(* of its own thread (rand::rng(), scheduler.rs:83 and 135).               *)

(* the arguments and locals of the first call *)
CallState ==
    [employees          |-> employees,
     past_schedules     |-> past_schedules,
     day_counts         |-> day_counts,
     schedule           |-> schedule,
     flexible_employees |-> flexible_employees,
     fixed_employees    |-> fixed_employees,
     grouped_employees  |-> grouped_employees,
     keys               |-> keys,
     i                  |-> i,
     key_idx            |-> key_idx,
     emp_idx            |-> emp_idx,
     pc                 |-> pc]

(* scheduler.rs:13-23: the arguments and locals at the start of a call *)
StartCall(emps, past) ==
    [employees          |-> emps,
     past_schedules     |-> past,
     day_counts         |-> EmptyDayCounts,
     schedule           |-> EmptySchedule,
     flexible_employees |-> <<>>,
     fixed_employees    |-> <<>>,
     grouped_employees  |-> <<>>,
     keys               |-> <<>>,
     i                  |-> 1,
     key_idx            |-> 1,
     emp_idx            |-> 1,
     pc                 |-> "process_fixed"]

(* scheduler.rs:52-67: one iteration of the loop over the roster *)
fixed_step(c) ==
    LET employee == c.employees[c.i]
        st == AssignDays([schedule |-> c.schedule, day_counts |-> c.day_counts],
                         employee, employee.fixed_days)
    IN IF employee.fixed_days # <<>>
       THEN { [c EXCEPT !.schedule = st.schedule,
                        !.day_counts = st.day_counts,
                        !.fixed_employees = Append(@, employee),
                        !.i = @ + 1] }
       ELSE { [c EXCEPT !.flexible_employees = Append(@, employee),
                        !.i = @ + 1] }

(* scheduler.rs:72-89 with 98-100 *)
group_step(c) ==
    LET ks == {e.required_days : e \in Range(c.flexible_employees)}
    IN { [c EXCEPT !.grouped_employees = g,
                   !.keys = SortDescending(ks),
                   !.key_idx = 1,
                   !.emp_idx = 1,
                   !.pc = "process_flexible"] :
           g \in { h \in [ks -> UNION {ShuffleGroup(
                                         Bucket(c.flexible_employees, k))
                                       : k \in ks}] :
                     \A k \in ks :
                       h[k] \in ShuffleGroup(Bucket(c.flexible_employees, k)) } }

(* scheduler.rs:105-123: one iteration of the loop over a bucket *)
flexible_step(c) ==
    LET available_combos == day_combinations_get(c.keys[c.key_idx])[1]
        employee == c.grouped_employees[c.keys[c.key_idx]][c.emp_idx]
    IN UNION {
         { LET st == AssignDays([schedule |-> c.schedule,
                                 day_counts |-> c.day_counts],
                                employee, best_combo.days)
           IN [c EXCEPT !.schedule = st.schedule,
                        !.day_counts = st.day_counts,
                        !.emp_idx = @ + 1] :
           best_combo \in
             { select_best(shuffled_combos, scores, ulp) :
                 shuffled_combos \in ShuffleOutcomes(available_combos),
                 ulp \in Roundings(available_combos) } } :
         scores \in {combo_scores(available_combos, c.day_counts, employee,
                                  c.past_schedules)} }

(* scheduler.rs:7-42: the states one step of a call leads to *)
generate_schedule_steps(c) ==
    IF c.pc = "process_fixed"
    THEN IF c.i <= Len(c.employees) THEN fixed_step(c) ELSE group_step(c)
    ELSE IF c.pc = "process_flexible"
    THEN IF c.key_idx > Len(c.keys)
         THEN { [c EXCEPT !.pc = "done"] }
         ELSE IF \/ day_combinations_get(c.keys[c.key_idx]) = None
                 \/ c.emp_idx > Len(c.grouped_employees[c.keys[c.key_idx]])
              THEN { [c EXCEPT !.key_idx = @ + 1, !.emp_idx = 1] }
              ELSE flexible_step(c)
    ELSE {}

TwoRoster ==
    << Employee(1, 1, <<>>), Employee(2, 2, <<"Tuesday">>),
       Employee(3, 2, <<>>) >>

InitTwo ==
    /\ StartGeneration(TwoRoster, <<>>)
    /\ other = Some(StartCall(TwoRoster, [k \in {1} |-> << {"Monday"} >>]))
    /\ sel = None
    /\ PageUnmounted

other_generate_schedule_shared_day_counts ==
    /\ other # None
    /\ \E c \in generate_schedule_steps(
                  [other[1] EXCEPT !.day_counts = day_counts]) :
         /\ other' = Some(c)
         /\ day_counts' = c.day_counts
    /\ UNCHANGED <<employees, past_schedules, schedule, flexible_employees,
                   fixed_employees, grouped_employees, keys, i, key_idx,
                   emp_idx, pc, ref>>
    /\ UNCHANGED <<sel, page_vars, db_vars, export_vars>>

(* a step of the second call *)
other_generate_schedule ==
    /\ other # None
    /\ \E c \in generate_schedule_steps(other[1]) : other' = Some(c)
    /\ UNCHANGED gen_vars
    /\ UNCHANGED <<sel, page_vars, db_vars, export_vars>>

NextTwo ==
    \/ process_fixed_schedules
    \/ group_by_required_days
    \/ process_flexible_employees
    \/ next_num_days
    \/ return_schedule
    \/ other_generate_schedule

SpecTwo == InitTwo /\ [][NextTwo]_vars

-----------------------------------------------------------------------------
(* find_best_day_combination called on a day-load, an employee and a       *)
(* history drawn from bounded sets                                         *)

MaxDayLoad == 1

SelHistoryValues ==
    { <<>>,
      << {"Monday"} >>,
      << {"Tuesday"}, {"Monday"} >>,
      << {"Monday", "Wednesday"}, {"Wednesday"}, {"Tuesday", "Friday"} >> }

InitSel ==
    /\ GenIdle
    /\ PageUnmounted
    /\ other = None
    /\ \E counts \in [Weekday -> 0..MaxDayLoad],
          required_days \in DOMAIN ScheduleGenerator.day_combinations,
          past \in {<<>>} \cup {[k \in {1} |-> h] : h \in SelHistoryValues} :
          sel = [day_counts      |-> counts,
                 employee        |-> Employee(1, required_days, <<>>),
                 past_schedules  |-> past,
                 shuffled_combos |-> <<>>,
                 ulp             |-> <<>>,
                 best_combo      |-> None]

(* scheduler.rs:129-199: the call, with the shuffle and the rounding it    *)
(* meets                                                                   *)
call_find_best_day_combination ==
    /\ sel # None
    /\ sel.best_combo = None
    /\ LET available_combos ==
               ScheduleGenerator.day_combinations[sel.employee.required_days]
       IN \E shuffled_combos \in ShuffleOutcomes(available_combos),
             ulp \in Roundings(available_combos) :
             sel' = [sel EXCEPT
                       !.shuffled_combos = shuffled_combos,
                       !.ulp = ulp,
                       !.best_combo =
                         Some(find_best_day_combination(
                                shuffled_combos, sel.day_counts, sel.employee,
                                sel.past_schedules, ulp))]
    /\ UNCHANGED <<gen_vars, page_vars, db_vars, other, export_vars>>

NextSel == call_find_best_day_combination

SpecSel == InitSel /\ [][NextSel]_vars

-----------------------------------------------------------------------------
(* db.rs: the schedules table *)

(* A row of the schedules table (db.rs:176-183).  The columns id and       *)
(* created_at are left out: no statement reads id, and created_at only     *)
(* orders the rows of one (year, month) in load_schedule_from_db.          *)
ScheduleRow(year, month, schedule_data) ==
    [year |-> year, month |-> month, schedule_data |-> schedule_data]

(* The orders in which a HashMap<Weekday, _> can be iterated: the build    *)
(* does not fix the order; MaxKeyOrders of them are taken.                 *)
HashMapOrders == {Rotate(weekdays, r) : r \in 0..(MaxKeyOrders - 1)}

(* db.rs:195, serde_json::to_string(schedule): the entries of the map, as  *)
(* (key, value) pairs in the iteration order of the map                    *)
to_string(sched, order) ==
    LET present == SelectSeq(order, LAMBDA d : d \in DOMAIN sched)
    IN [k \in 1..Len(present) |-> <<present[k], sched[present[k]]>>]

(* db.rs:218, serde_json::from_str(&data): the map of the entries *)
from_str(data) ==
    [d \in {data[k][1] : k \in DOMAIN data} |->
       data[CHOOSE k \in DOMAIN data :
              /\ data[k][1] = d
              /\ \A j \in DOMAIN data : data[j][1] = d => j <= k][2]]

(* the table with one more copy of a row *)
InsertRow(table, row) ==
    IF row \in DOMAIN table
    THEN [table EXCEPT ![row] = @ + 1]
    ELSE (row :> 1) @@ table

save_schedule_to_db_insert_only(table, year, month, sched, order) ==
    InsertRow(table, ScheduleRow(year, month, to_string(sched, order)))

(* db.rs:189-201: INSERT OR REPLACE under UNIQUE(year, month) deletes the  *)
(* rows of the pair and inserts the new row                                *)
save_schedule_to_db(table, year, month, sched, order) ==
    LET kept == {r \in DOMAIN table : ~ (r.year = year /\ r.month = month)}
    IN InsertRow([r \in kept |-> table[r]],
                 ScheduleRow(year, month, to_string(sched, order)))

(* db.rs:203-223: the first row of the pair in the order of the SELECT *)
load_schedule_from_db(table, year, month) ==
    LET rows == {r \in DOMAIN table : r.year = year /\ r.month = month}
    IN IF rows # {}
       THEN Some(from_str((CHOOSE r \in rows : TRUE).schedule_data))
       ELSE None

(* db.rs:231-234 *)
delete_all_schedules(table) == <<>>

-----------------------------------------------------------------------------
(* db.rs: save_schedule_to_db, load_schedule_from_db and                   *)
(* delete_all_schedules called in any order                                *)

DbKeys == { <<2025, 12>>, <<2026, 1>> }

DbSchedules ==
    { EmptySchedule,
      [EmptySchedule EXCEPT !["Monday"] = << Employee(1, 1, <<>>) >>],
      [EmptySchedule EXCEPT
         !["Tuesday"] = << Employee(2, 2, <<"Tuesday">>),
                           Employee(1, 1, <<>>) >>,
         !["Friday"] = << Employee(1, 1, <<>>) >>] }

InitDb ==
    /\ GenIdle
    /\ sel = None
    /\ PageUnmounted
    /\ other = None

(* db.rs:189-201, with the iteration order the serializer meets *)
call_save_schedule_to_db ==
    /\ \E key \in DbKeys, sched \in DbSchedules, order \in HashMapOrders :
         /\ schedules_table' =
              save_schedule_to_db(schedules_table, key[1], key[2], sched,
                                  order)
         /\ saved_since_clear' = (key :> sched) @@ saved_since_clear
    /\ UNCHANGED load_results
    /\ UNCHANGED <<selected_year, selected_month, current_schedule,
                   is_generating, error_message, tasks, today, gen_call>>
    /\ UNCHANGED <<gen_vars, sel, other, export_vars>>

(* db.rs:203-223 *)
call_load_schedule_from_db ==
    /\ Len(load_results) < MaxLoads
    /\ \E key \in DbKeys :
         load_results' =
           Append(load_results,
                  [year |-> key[1], month |-> key[2],
                   returned |-> load_schedule_from_db(schedules_table,
                                                      key[1], key[2])])
    /\ UNCHANGED <<saved_since_clear, page_vars>>
    /\ UNCHANGED <<gen_vars, sel, other, export_vars>>

(* db.rs:231-234 *)
call_delete_all_schedules ==
    /\ schedules_table' = delete_all_schedules(schedules_table)
    /\ saved_since_clear' = <<>>
    /\ UNCHANGED load_results
    /\ UNCHANGED <<selected_year, selected_month, current_schedule,
                   is_generating, error_message, tasks, today, gen_call>>
    /\ UNCHANGED <<gen_vars, sel, other, export_vars>>

NextDb ==
    \/ call_save_schedule_to_db
    \/ call_load_schedule_from_db
    \/ call_delete_all_schedules

SpecDb == InitDb /\ [][NextDb]_vars

-----------------------------------------------------------------------------
(* schedules_page.rs: SchedulesPage *)

(* schedules_page.rs:33-48: the roster signal, read once at mount *)
employees_signal ==
    << Employee(1, 3, <<>>), Employee(2, 1, <<"Tuesday">>) >>

AbsMonth(year, month) == year * 12 + (month - 1)

PastMonth_same_year(year, month, k) ==
    LET past_month == month - k
    IN [year  |-> year,
        month |-> IF past_month < 1 THEN past_month + 12 ELSE past_month]

(* schedules_page.rs:224-230: the month k months before (year, month) *)
PastMonth(year, month, k) ==
    LET past_month == month - k
    IN [year  |-> year - (IF past_month < 1 THEN 1 ELSE 0),
        month |-> IF past_month < 1 THEN past_month + 12 ELSE past_month]

(* schedules_page.rs:235-240 *)
EmployeeDays(sched, id) ==
    {d \in DOMAIN sched : \E k \in DOMAIN sched[d] : sched[d][k].id = id}

(* schedules_page.rs:223-246: the loop over k = from..3 for one employee;  *)
(* every entry is kept with the month it was loaded from                   *)
RECURSIVE PastEntries(_, _, _, _, _)
PastEntries(table, year, month, id, from) ==
    IF from > 3 THEN <<>>
    ELSE LET m == PastMonth(year, month, from)
             loaded == load_schedule_from_db(table, m.year, m.month)
             rest == PastEntries(table, year, month, id, from + 1)
         IN IF loaded # None
            THEN << [year |-> m.year, month |-> m.month,
                     days |-> EmployeeDays(loaded[1], id)] >> \o rest
            ELSE rest

(* schedules_page.rs:213-250 *)
get_past_schedules(table, year, month, emps) ==
    [id \in {emps[k].id : k \in DOMAIN emps} |->
       LET entries == PastEntries(table, year, month, id, 1)
       IN [k \in 1..Len(entries) |-> entries[k].days]]

LoadTask(year, month) == [kind |-> "load", year |-> year, month |-> month]

GenerateTask(year, month) ==
    [kind |-> "generate", year |-> year, month |-> month]

SaveTask(year, month, schedule_data) ==
    [kind |-> "save", year |-> year, month |-> month,
     schedule_data |-> schedule_data]

RemoveAt(s, k) == SubSeq(s, 1, k - 1) \o SubSeq(s, k + 1, Len(s))

(* the months the page is driven through: from the month before today to   *)
(* MaxMonthsAhead months after it                                          *)
InWindow(year, month) ==
    /\ AbsMonth(year, month) >= AbsMonth(today[1], today[2]) - 1
    /\ AbsMonth(year, month) <= AbsMonth(today[1], today[2]) + MaxMonthsAhead

(* schedules_page.rs:59-93: the page as mounted, its load effect run once *)
InitPage ==
    /\ GenIdle
    /\ sel = None
    /\ schedules_table = <<>>
    /\ today = <<2025, 11>>
    /\ selected_year = 2025
    /\ selected_month = 11
    /\ current_schedule = None
    /\ is_generating = FALSE
    /\ error_message = None
    /\ tasks = << LoadTask(2025, 11) >>
    /\ gen_call = None
    /\ saved_since_clear = <<>>
    /\ load_results = <<>>
    /\ csv_export = None
    /\ other = None

(* schedules_page.rs:143-164 followed by the effect at 65-93 that the      *)
(* change of the date signals triggers                                     *)
change_month ==
    /\ pc = "idle"
    /\ Len(tasks) < MaxPendingTasks
    /\ \E increment \in {-1, 1} :
         LET current_month_num == selected_month + increment
             new_month == IF current_month_num > 12 THEN 1
                          ELSE IF current_month_num < 1 THEN 12
                          ELSE current_month_num
             new_year == IF current_month_num > 12 THEN selected_year + 1
                         ELSE IF current_month_num < 1 THEN selected_year - 1
                         ELSE selected_year
         IN /\ InWindow(new_year, new_month)
            /\ IF new_year \in 2025..2035
               THEN /\ selected_month' = new_month
                    /\ selected_year' = new_year
                    /\ error_message' = None
                    /\ current_schedule' = None
                    /\ tasks' = Append(tasks, LoadTask(new_year, new_month))
               ELSE /\ error_message' = Some("Year out of allowed range")
                    /\ UNCHANGED <<selected_month, selected_year,
                                   current_schedule, tasks>>
    /\ UNCHANGED <<schedules_table, is_generating, today, gen_call>>
    /\ UNCHANGED <<gen_vars, sel, db_vars, other, export_vars>>

(* schedules_page.rs:72-92: the task spawned by the load effect *)
run_load_task ==
    /\ pc = "idle"
    /\ \E k \in DOMAIN tasks :
         /\ tasks[k].kind = "load"
         /\ LET loaded == load_schedule_from_db(schedules_table,
                                                tasks[k].year, tasks[k].month)
            IN current_schedule' = IF loaded # None THEN loaded
                                   ELSE current_schedule
         /\ tasks' = RemoveAt(tasks, k)
    /\ UNCHANGED <<schedules_table, selected_year, selected_month,
                   is_generating, error_message, today, gen_call>>
    /\ UNCHANGED <<gen_vars, sel, db_vars, other, export_vars>>

handle_generate_while_generating ==
    /\ pc = "idle"
    /\ Len(tasks) < MaxPendingTasks
    /\ employees_signal # <<>>
    /\ is_generating' = TRUE
    /\ error_message' = None
    /\ tasks' = Append(tasks, GenerateTask(selected_year, selected_month))
    /\ UNCHANGED <<schedules_table, selected_year, selected_month,
                   current_schedule, today, gen_call>>
    /\ UNCHANGED <<gen_vars, sel, db_vars, other, export_vars>>

(* schedules_page.rs:173-183: the click on Generate, up to the spawn *)
handle_generate ==
    /\ pc = "idle"
    /\ Len(tasks) < MaxPendingTasks
    /\ ~ is_generating
    /\ employees_signal # <<>>
    /\ is_generating' = TRUE
    /\ error_message' = None
    /\ tasks' = Append(tasks, GenerateTask(selected_year, selected_month))
    /\ UNCHANGED <<schedules_table, selected_year, selected_month,
                   current_schedule, today, gen_call>>
    /\ UNCHANGED <<gen_vars, sel, db_vars, other, export_vars>>

run_generate_task_refuses_current_month ==
    /\ pc = "idle"
    /\ \E k \in DOMAIN tasks :
         /\ tasks[k].kind = "generate"
         /\ tasks' = RemoveAt(tasks, k)
         /\ IF AbsMonth(tasks[k].year, tasks[k].month)
                 <= AbsMonth(today[1], today[2])
            THEN /\ error_message' =
                      Some("Cannot generate schedules for past months")
                 /\ is_generating' = FALSE
                 /\ UNCHANGED <<gen_vars, gen_call>>
            ELSE /\ employees' = employees_signal
                 /\ past_schedules' =
                      get_past_schedules(schedules_table, tasks[k].year,
                                         tasks[k].month, employees_signal)
                 /\ day_counts' = EmptyDayCounts
                 /\ schedule' = EmptySchedule
                 /\ flexible_employees' = <<>>
                 /\ fixed_employees' = <<>>
                 /\ grouped_employees' = <<>>
                 /\ keys' = <<>>
                 /\ i' = 1
                 /\ key_idx' = 1
                 /\ emp_idx' = 1
                 /\ pc' = "process_fixed"
                 /\ ref' = [schedule |-> EmptySchedule,
                            day_counts |-> EmptyDayCounts]
                 /\ gen_call' = Some([year |-> tasks[k].year,
                                      month |-> tasks[k].month])
                 /\ UNCHANGED <<is_generating, error_message>>
    /\ UNCHANGED <<schedules_table, selected_year, selected_month,
                   current_schedule, today, sel, db_vars, other, export_vars>>

(* schedules_page.rs:183-206: the spawned task up to the call of           *)
(* generate_balanced_schedule (scheduler.rs:258-264)                       *)
run_generate_task ==
    /\ pc = "idle"
    /\ \E k \in DOMAIN tasks :
         /\ tasks[k].kind = "generate"
         /\ tasks' = RemoveAt(tasks, k)
         /\ IF AbsMonth(tasks[k].year, tasks[k].month)
                 < AbsMonth(today[1], today[2])
            THEN /\ error_message' =
                      Some("Cannot generate schedules for past months")
                 /\ is_generating' = FALSE
                 /\ UNCHANGED <<gen_vars, gen_call>>
            ELSE /\ employees' = employees_signal
                 /\ past_schedules' =
                      get_past_schedules(schedules_table, tasks[k].year,
                                         tasks[k].month, employees_signal)
                 /\ day_counts' = EmptyDayCounts
                 /\ schedule' = EmptySchedule
                 /\ flexible_employees' = <<>>
                 /\ fixed_employees' = <<>>
                 /\ grouped_employees' = <<>>
                 /\ keys' = <<>>
                 /\ i' = 1
                 /\ key_idx' = 1
                 /\ emp_idx' = 1
                 /\ pc' = "process_fixed"
                 /\ ref' = [schedule |-> EmptySchedule,
                            day_counts |-> EmptyDayCounts]
                 /\ gen_call' = Some([year |-> tasks[k].year,
                                      month |-> tasks[k].month])
                 /\ UNCHANGED <<is_generating, error_message>>
    /\ UNCHANGED <<schedules_table, selected_year, selected_month,
                   current_schedule, today, sel, db_vars, other, export_vars>>

(* schedules_page.rs:206-208: the schedule is returned to the task *)
finish_generate_task ==
    /\ pc = "done"
    /\ gen_call # None
    /\ current_schedule' = Some(schedule)
    /\ is_generating' = FALSE
    /\ gen_call' = None
    /\ employees' = <<>>
    /\ past_schedules' = <<>>
    /\ day_counts' = EmptyDayCounts
    /\ schedule' = EmptySchedule
    /\ flexible_employees' = <<>>
    /\ fixed_employees' = <<>>
    /\ grouped_employees' = <<>>
    /\ keys' = <<>>
    /\ i' = 1
    /\ key_idx' = 1
    /\ emp_idx' = 1
    /\ pc' = "idle"
    /\ ref' = [schedule |-> EmptySchedule, day_counts |-> EmptyDayCounts]
    /\ UNCHANGED <<schedules_table, selected_year, selected_month,
                   error_message, tasks, today, sel, db_vars, other, export_vars>>

(* schedules_page.rs:252-257: the click on Save, up to the spawn *)
handle_save ==
    /\ pc = "idle"
    /\ Len(tasks) < MaxPendingTasks
    /\ current_schedule # None
    /\ error_message' = None
    /\ tasks' = Append(tasks, SaveTask(selected_year, selected_month,
                                       current_schedule[1]))
    /\ UNCHANGED <<schedules_table, selected_year, selected_month,
                   current_schedule, is_generating, today, gen_call>>
    /\ UNCHANGED <<gen_vars, sel, db_vars, other, export_vars>>

(* schedules_page.rs:257-269: the spawned save *)
run_save_task ==
    /\ pc = "idle"
    /\ \E k \in DOMAIN tasks, order \in HashMapOrders :
         /\ tasks[k].kind = "save"
         /\ schedules_table' =
              save_schedule_to_db(schedules_table, tasks[k].year,
                                  tasks[k].month, tasks[k].schedule_data,
                                  order)
         /\ tasks' = RemoveAt(tasks, k)
    /\ error_message' = Some("Schedule saved successfully!")
    /\ UNCHANGED <<selected_year, selected_month, current_schedule,
                   is_generating, today, gen_call>>
    /\ UNCHANGED <<gen_vars, sel, db_vars, other, export_vars>>

NextPage ==
    \/ change_month
    \/ run_load_task
    \/ handle_generate
    \/ run_generate_task
    \/ process_fixed_schedules
    \/ group_by_required_days
    \/ process_flexible_employees
    \/ next_num_days
    \/ return_schedule
    \/ finish_generate_task
    \/ handle_save
    \/ run_save_task

SpecPage == InitPage /\ [][NextPage]_vars

(* the page on which Save is not clicked: month changes with their loads   *)
(* and generations                                                         *)
NextGenerate ==
    \/ change_month
    \/ run_load_task
    \/ handle_generate
    \/ run_generate_task
    \/ process_fixed_schedules
    \/ group_by_required_days
    \/ process_flexible_employees
    \/ next_num_days
    \/ return_schedule
    \/ finish_generate_task

(* a spawned generation task is polled by the runtime, and then runs to    *)
(* its end without an await that yields (schedules_page.rs:183-209)        *)
SpecGenerate ==
    /\ InitPage
    /\ [][NextGenerate]_vars
    /\ WF_<<tasks, loop_position>>(run_generate_task)
    /\ WF_loop_position(process_fixed_schedules)
    /\ WF_loop_position(group_by_required_days)
    /\ WF_loop_position(selection_advances)
    /\ WF_loop_position(next_num_days)
    /\ WF_loop_position(return_schedule)
    /\ WF_loop_position(finish_generate_task)

-----------------------------------------------------------------------------
(* schedules_page.rs: get_past_schedules called for each target month of a *)
(* year, on tables in which each of the three months before the target is  *)
(* saved or not, and the target month and the fourth month before it are   *)
(* saved                                                                   *)

MonthOfAbs(a) == << a \div 12, (a % 12) + 1 >>

(* a saved schedule with the first employee on Monday, one without the     *)
(* first employee, and the schedule of the months that are not to be read  *)
PastSchedulesSaved ==
    { [EmptySchedule EXCEPT !["Monday"] = << employees_signal[1] >>,
                            !["Tuesday"] = << employees_signal[2] >>],
      [EmptySchedule EXCEPT !["Tuesday"] = << employees_signal[2] >>] }

OtherMonthSchedule ==
    [EmptySchedule EXCEPT !["Friday"] = << employees_signal[1] >>]

(* db.rs:189-201: the table after the saves of `saved`, a function from    *)
(* (year, month) to the schedule saved                                     *)
TableOf(saved) ==
    [r \in { ScheduleRow(key[1], key[2], to_string(saved[key], weekdays))
               : key \in DOMAIN saved } |-> 1]

InitPast ==
    /\ GenIdle
    /\ sel = None
    /\ other = None
    /\ selected_year = 2026
    /\ selected_month \in 1..12
    /\ \E choice \in [1..3 -> PastSchedulesSaved \cup {None}] :
         LET target == AbsMonth(selected_year, selected_month)
             saved == [key \in { MonthOfAbs(target - k) :
                                   k \in {0, 4}
                                     \cup {j \in 1..3 : choice[j] # None} }
                         |-> LET k == target - AbsMonth(key[1], key[2])
                             IN IF k \in 1..3 THEN choice[k]
                                ELSE OtherMonthSchedule]
         IN /\ schedules_table = TableOf(saved)
            /\ saved_since_clear = saved
    /\ load_results = <<>>
    /\ csv_export = None
    /\ current_schedule = None
    /\ is_generating = FALSE
    /\ error_message = None
    /\ tasks = <<>>
    /\ today = <<2025, 11>>
    /\ gen_call = None

(* schedules_page.rs:213-250, called as at schedules_page.rs:204 *)
call_get_past_schedules ==
    /\ past_schedules = <<>>
    /\ past_schedules' = get_past_schedules(schedules_table, selected_year,
                                            selected_month, employees_signal)
    /\ UNCHANGED <<employees, day_counts, schedule, flexible_employees,
                   fixed_employees, grouped_employees, keys, i, key_idx,
                   emp_idx, pc, ref>>
    /\ UNCHANGED env_vars

NextPast == call_get_past_schedules

SpecPast == InitPast /\ [][NextPast]_vars

-----------------------------------------------------------------------------
(* schedules_page.rs: handle_update_schedule, the edit of the schedule on  *)
(* the page                                                                *)

(* schema.rs:10, Employee::name, as the rank of the String in the order of *)
(* Strings; the employees 1 and 3 have the same name                       *)
name(employee) == IF employee.id = 2 THEN 1 ELSE 2

retain_everyone(day_employees, emp_id) == day_employees

(* schedules_page.rs:341: day_employees.retain(|e| e.id != emp_id) *)
retain(day_employees, emp_id) ==
    SelectSeq(day_employees, LAMBDA e : e.id # emp_id)

push_on_existing_only(sched, new_day, emp) ==
    IF new_day \in DOMAIN sched
    THEN [sched EXCEPT ![new_day] = Append(@, emp)]
    ELSE sched

(* schedules_page.rs:344: schedule.entry(new_day).or_default().push(emp) *)
push_on(sched, new_day, emp) ==
    IF new_day \in DOMAIN sched
    THEN [sched EXCEPT ![new_day] = Append(@, emp)]
    ELSE (new_day :> << emp >>) @@ sched

(* schedules_page.rs:343-345: the loop over new_days_set; the days are     *)
(* distinct, so the order of the loop does not show in the result          *)
RECURSIVE push_all(_, _, _)
push_all(sched, new_days_set, emp) ==
    IF new_days_set = {} THEN sched
    ELSE LET new_day == CHOOSE d \in new_days_set : TRUE
         IN push_all(push_on(sched, new_day, emp), new_days_set \ {new_day},
                     emp)

(* schedules_page.rs:347: sort_by_key on the name, a stable sort *)
RECURSIVE sort_by_key(_)
sort_by_key(day_employees) ==
    IF day_employees = <<>> THEN <<>>
    ELSE LET n == Len(day_employees)
             last == day_employees[n]
             front == sort_by_key(SubSeq(day_employees, 1, n - 1))
         IN SelectSeq(front, LAMBDA e : name(e) <= name(last))
            \o << last >>
            \o SelectSeq(front, LAMBDA e : name(e) > name(last))

(* schedules_page.rs:338, employees.read().iter().find(|e| e.id == emp_id) *)
find_employee(emps, emp_id) ==
    IF \E k \in DOMAIN emps : emps[k].id = emp_id
    THEN Some(emps[CHOOSE k \in DOMAIN emps :
                     /\ emps[k].id = emp_id
                     /\ \A j \in DOMAIN emps : emps[j].id = emp_id => k <= j])
    ELSE None

(* schedules_page.rs:340-348: the schedule after the edit *)
updated_schedule(sched, emp, new_days_set) ==
    LET retained == [d \in DOMAIN sched |-> retain(sched[d], emp.id)]
        pushed == push_all(retained, new_days_set, emp)
    IN [d \in DOMAIN pushed |-> sort_by_key(pushed[d])]

(* the schedules the page can show when an edit starts: the one            *)
(* generate_schedule returns for the roster of the page, one loaded from   *)
(* the table that holds an employee since deleted from the roster and      *)
(* lacks the weekdays without employees                                    *)
EditStartSchedules ==
    { [EmptySchedule EXCEPT
         !["Monday"] = << employees_signal[1] >>,
         !["Tuesday"] = << employees_signal[2] >>,
         !["Wednesday"] = << employees_signal[1] >>,
         !["Friday"] = << employees_signal[1] >>],
      ("Monday" :> << employees_signal[2], Employee(3, 1, <<>>) >>)
        @@ ("Thursday" :> << Employee(3, 1, <<>>), employees_signal[1] >>) }

InitEdit ==
    /\ GenIdle
    /\ sel = None
    /\ schedules_table = <<>>
    /\ selected_year = 2025
    /\ selected_month = 11
    /\ current_schedule \in {None} \cup {Some(s) : s \in EditStartSchedules}
    /\ is_generating = FALSE
    /\ error_message = None
    /\ tasks = <<>>
    /\ today = <<2025, 11>>
    /\ gen_call = None
    /\ saved_since_clear = <<>>
    /\ load_results = <<>>
    /\ csv_export = None
    /\ other = None

(* schedules_page.rs:337-358: what current_schedule holds after the call *)
schedule_after_update(sched_signal, emp_id, new_days_set) ==
    IF sched_signal # None
    THEN LET found == find_employee(employees_signal, emp_id)
         IN IF found # None
            THEN Some(updated_schedule(sched_signal[1], found[1],
                                       new_days_set))
            ELSE sched_signal
    ELSE sched_signal

(* schedules_page.rs:349-357: the message the call leaves *)
message_after_update(sched_signal, emp_id) ==
    IF sched_signal # None
    THEN IF find_employee(employees_signal, emp_id) # None
         THEN Some("Schedule updated")
         ELSE Some("Failed to update schedule: Employee not found.")
    ELSE Some("Cannot update: No schedule loaded.")

(* schedules_page.rs:336-360, for one emp_id and one new_days_set *)
update_schedule(emp_id, new_days_set) ==
    /\ current_schedule' =
         schedule_after_update(current_schedule, emp_id, new_days_set)
    /\ error_message' = message_after_update(current_schedule, emp_id)
    /\ UNCHANGED <<schedules_table, selected_year, selected_month,
                   is_generating, tasks, today, gen_call>>
    /\ UNCHANGED <<gen_vars, sel, db_vars, other, export_vars>>

(* schedules_page.rs:336-360 *)
handle_update_schedule ==
    \E emp_id \in 1..3, new_days_set \in SUBSET Weekday :
      update_schedule(emp_id, new_days_set)

NextEdit == handle_update_schedule

SpecEdit == InitEdit /\ [][NextEdit]_vars

-----------------------------------------------------------------------------
(* export.rs: generate_csv_data.  The text is held as its lines, each line *)
(* as its cells: the lines are joined by newlines and the cells by commas  *)
(* (export.rs:44, 56, 89, 94).                                             *)

(* export.rs:52, format!("{}", count) for the counts that occur *)
format_count(count) ==
    << "0", "1", "2", "3", "4", "5", "6", "7", "8", "9" >>[count + 1]

(* export.rs:41-44 *)
header1(sched) == << "Name" >> \o weekdays

(* export.rs:47-56: an empty first cell, then the count of each weekday *)
header2(sched) ==
    << "" >> \o [k \in 1..Len(weekdays) |->
                   format_count(IF weekdays[k] \in DOMAIN sched
                                THEN Len(sched[weekdays[k]])
                                ELSE 0)]

(* export.rs:61-66: the distinct Employee values of the schedule; Employee *)
(* derives Eq and Hash over all its fields (schema.rs:7)                   *)
unique_employees(sched) ==
    UNION { Range(sched[d]) : d \in DOMAIN sched }

(* the orders in which the HashSet can be iterated (export.rs:65) *)
SetOrders(S) ==
    { o \in [1..Cardinality(S) -> S] : \A e \in S : \E k \in DOMAIN o : o[k] = e }

(* export.rs:70-77: the names on each weekday *)
assignments(sched) ==
    [d \in DOMAIN sched |-> {name(sched[d][k]) : k \in DOMAIN sched[d]}]

(* export.rs:83-89: the cells of the row of emp *)
row_parts(sched, emp) ==
    << name(emp) >>
    \o [k \in 1..Len(weekdays) |->
          IF /\ weekdays[k] \in DOMAIN assignments(sched)
             /\ name(emp) \in assignments(sched)[weekdays[k]]
          THEN "X"
          ELSE ""]

(* export.rs:24-102; iteration is the order in which the HashSet of        *)
(* export.rs:64 is read, and sort_by is a stable sort                      *)
generate_csv_data(sched, iteration) ==
    LET all_employee_refs == sort_by_key(iteration)
        data_rows == [k \in 1..Len(all_employee_refs) |->
                        row_parts(sched, all_employee_refs[k])]
    IN [all_employee_refs |-> all_employee_refs,
        csv_data |-> << header1(sched), header2(sched) >> \o data_rows]

(* the employees of the exported schedules; the first and the third have   *)
(* the same name                                                           *)
ExportEmployees ==
    << Employee(1, 3, <<>>), Employee(2, 1, <<"Tuesday">>),
       Employee(3, 1, <<>>) >>

ExportDays == {"Monday", "Tuesday", "Friday"}

(* the schedule in which employee k is on the weekdays on[k] *)
ScheduleOf(on) ==
    [d \in Weekday |->
       SelectSeq(ExportEmployees,
                 LAMBDA e : d \in on[e.id])]

ExportSchedules ==
    { ScheduleOf(on) : on \in [1..Len(ExportEmployees) -> SUBSET ExportDays] }

InitExport ==
    /\ GenIdle
    /\ sel = None
    /\ other = None
    /\ schedules_table = <<>>
    /\ selected_year = 2025
    /\ selected_month = 11
    /\ current_schedule \in {Some(sched) : sched \in ExportSchedules}
    /\ is_generating = FALSE
    /\ error_message = None
    /\ tasks = <<>>
    /\ today = <<2025, 11>>
    /\ gen_call = None
    /\ saved_since_clear = <<>>
    /\ load_results = <<>>
    /\ csv_export = None

(* export.rs:24-102, called on the schedule the page shows *)
call_generate_csv_data ==
    /\ current_schedule # None
    /\ \E iteration \in SetOrders(unique_employees(current_schedule[1])) :
         csv_export' = Some(generate_csv_data(current_schedule[1], iteration))
    /\ UNCHANGED <<gen_vars, sel, page_vars, db_vars, other>>

NextExport == call_generate_csv_data

SpecExport == InitExport /\ [][NextExport]_vars

-----------------------------------------------------------------------------
(* Properties of the returned schedule *)

DaysOf(sched, id) ==
    {d \in Weekday : \E k \in DOMAIN sched[d] : sched[d][k].id = id}

CountOn(sched, d, id) ==
    Cardinality({k \in DOMAIN sched[d] : sched[d][k].id = id})

DistinctIds(emps) ==
    \A a, b \in DOMAIN emps : a # b => emps[a].id # emps[b].id

IsFlexible(e) == e.fixed_days = <<>>

HasRepeatedFixedDay(e) ==
    \E a, b \in DOMAIN e.fixed_days : a # b /\ e.fixed_days[a] = e.fixed_days[b]

(* C1: the schedule returned by generate_schedule holds no employee id     *)
(* twice on the roster of any weekday, also when a fixed_days list repeats *)
(* a weekday, whatever the shuffles give.                                  *)
C1_NoDuplicateIds ==
    pc = "done" =>
      \A d \in Weekday :
        \A a, b \in DOMAIN schedule[d] :
          a # b => schedule[d][a].id # schedule[d][b].id

C1_Witness ==
    /\ pc = "done"
    /\ \E k \in DOMAIN employees :
         /\ HasRepeatedFixedDay(employees[k])
         /\ CountOn(schedule, "Monday", employees[k].id) = 1
    /\ \E d \in Weekday : Len(schedule[d]) >= 2

(* C2: with pairwise distinct ids, every flexible employee whose           *)
(* required_days is 1, 2, 3 or 5 is on exactly required_days distinct      *)
(* weekdays of the returned schedule.                                      *)
C2_QuotaSatisfaction ==
    (pc = "done" /\ DistinctIds(employees)) =>
      \A k \in DOMAIN employees :
        (IsFlexible(employees[k])
           /\ employees[k].required_days \in {1, 2, 3, 5}) =>
          Cardinality(DaysOf(schedule, employees[k].id))
            = employees[k].required_days

C2_Witness ==
    /\ pc = "done"
    /\ DistinctIds(employees)
    /\ \E k \in DOMAIN employees :
         /\ IsFlexible(employees[k])
         /\ employees[k].required_days = 2
         /\ Cardinality(DaysOf(schedule, employees[k].id)) = 2
    /\ \E k \in DOMAIN employees :
         /\ IsFlexible(employees[k])
         /\ employees[k].required_days = 1
         /\ Cardinality(DaysOf(schedule, employees[k].id)) = 1

(* C3: with pairwise distinct ids, the roster of every fixed weekday of an *)
(* employee with fixed days holds that employee exactly once.              *)
C3_FixedDayInclusion ==
    (pc = "done" /\ DistinctIds(employees)) =>
      \A k \in DOMAIN employees :
        \A d \in Range(employees[k].fixed_days) :
          CountOn(schedule, d, employees[k].id) = 1

C3_Witness ==
    /\ pc = "done"
    /\ DistinctIds(employees)
    /\ \E k \in DOMAIN employees :
         /\ employees[k].fixed_days = <<"Monday", "Wednesday", "Monday">>
         /\ CountOn(schedule, "Monday", employees[k].id) = 1
         /\ CountOn(schedule, "Wednesday", employees[k].id) = 1

(* C4: an employee with fixed days is on exactly the set of their fixed    *)
(* weekdays in the returned schedule, whatever their required_days is.     *)
C4_FixedFullyResolved ==
    pc = "done" =>
      \A k \in DOMAIN employees :
        ~ IsFlexible(employees[k]) =>
          DaysOf(schedule, employees[k].id) = Range(employees[k].fixed_days)

C4_Witness ==
    /\ pc = "done"
    /\ \E k \in DOMAIN employees :
         /\ employees[k].fixed_days = <<"Tuesday">>
         /\ employees[k].required_days = 5
         /\ DaysOf(schedule, employees[k].id) = {"Tuesday"}
    /\ \E k \in DOMAIN employees : IsFlexible(employees[k])

(* C5: a flexible employee with required_days = 3 is on exactly Monday,    *)
(* Wednesday and Friday and one with required_days = 5 on all five         *)
(* weekdays, for every day-load, history and shuffle.                      *)
C5_DeterministicCombination ==
    pc = "done" =>
      \A k \in DOMAIN employees :
        IsFlexible(employees[k]) =>
          /\ employees[k].required_days = 3 =>
               DaysOf(schedule, employees[k].id)
                 = {"Monday", "Wednesday", "Friday"}
          /\ employees[k].required_days = 5 =>
               DaysOf(schedule, employees[k].id) = Weekday

C5_Witness ==
    /\ pc = "done"
    /\ \E k \in DOMAIN employees :
         /\ IsFlexible(employees[k])
         /\ employees[k].required_days = 3
         /\ employees[k].id \in DOMAIN past_schedules
         /\ past_schedules[employees[k].id] = << {"Monday"} >>
         /\ DaysOf(schedule, employees[k].id)
              = {"Monday", "Wednesday", "Friday"}
    /\ \E k \in DOMAIN employees :
         /\ IsFlexible(employees[k])
         /\ employees[k].required_days = 5
         /\ DaysOf(schedule, employees[k].id) = Weekday

(* C8: a flexible employee whose required_days has no catalog entry is on  *)
(* no weekday of the returned schedule, and at every step the schedule and *)
(* the day-loads are those of the run on the roster without such           *)
(* employees, under the same shuffles.                                     *)
C8_UnmappedQuotaDropped ==
    /\ ref = [schedule |-> schedule, day_counts |-> day_counts]
    /\ pc = "done" =>
         \A k \in DOMAIN employees :
           IsUnmapped(employees[k]) => DaysOf(schedule, employees[k].id) = {}

C8_Witness ==
    /\ pc = "done"
    /\ \E k \in DOMAIN employees :
         /\ IsUnmapped(employees[k])
         /\ employees[k].required_days = 4
         /\ DaysOf(schedule, employees[k].id) = {}
    /\ \E k \in DOMAIN employees :
         /\ IsFlexible(employees[k])
         /\ employees[k].required_days = 1
         /\ Cardinality(DaysOf(schedule, employees[k].id)) = 1

MaxLoad(sched) ==
    CHOOSE m \in {Len(sched[d]) : d \in Weekday} :
        \A d \in Weekday : Len(sched[d]) <= m

MinLoad(sched) ==
    CHOOSE m \in {Len(sched[d]) : d \in Weekday} :
        \A d \in Weekday : m <= Len(sched[d])

NoHistory(past) == \A id \in DOMAIN past : past[id] = <<>>

(* C9: for ten flexible employees with required_days = 1, no fixed days    *)
(* and an empty history, the largest weekday roster of the returned        *)
(* schedule exceeds the smallest by at most 2, whatever the shuffles give. *)
C9_BalanceOfTen ==
    (/\ pc = "done"
     /\ Len(employees) = 10
     /\ \A k \in DOMAIN employees :
          IsFlexible(employees[k]) /\ employees[k].required_days = 1
     /\ NoHistory(past_schedules)) =>
      MaxLoad(schedule) - MinLoad(schedule) <= 2

C9_Witness ==
    /\ pc = "done"
    /\ Len(employees) = 10
    /\ \A k \in DOMAIN employees :
         IsFlexible(employees[k]) /\ employees[k].required_days = 1
    /\ NoHistory(past_schedules)
    /\ \A k \in DOMAIN employees :
         Cardinality(DaysOf(schedule, employees[k].id)) = 1
    /\ MaxLoad(schedule) - MinLoad(schedule) <= 2

(* the shuffles and roundings under which the selector, called on the      *)
(* arguments held in sel, returns the single weekday d                     *)
ChosenOutcomes(d) ==
    LET available_combos ==
            ScheduleGenerator.day_combinations[sel.employee.required_days]
    IN { o \in ShuffleOutcomes(available_combos)
                 \X Roundings(available_combos) :
           find_best_day_combination(o[1], sel.day_counts, sel.employee,
                                     sel.past_schedules, o[2])
             = DayCombination(<<d>>) }

OnlyHistoryIsMonday ==
    /\ sel # None
    /\ sel.employee.required_days = 1
    /\ sel.employee.fixed_days = <<>>
    /\ sel.employee.id \in DOMAIN sel.past_schedules
    /\ sel.past_schedules[sel.employee.id] = << {"Monday"} >>
    /\ \A d, e \in Weekday : sel.day_counts[d] = sel.day_counts[e]

-----------------------------------------------------------------------------
(* Properties of the history the schedules page hands to the scheduler *)

(* the history read for the generation in progress, for employee id, each  *)
(* entry with the month it was loaded from                                 *)
HistoryEntries(id) ==
    PastEntries(schedules_table, gen_call[1].year, gen_call[1].month, id, 1)

(* the months whose weekday sets are added to past_day_frequencies         *)
(* (scheduler.rs:149-163)                                                  *)
ContributingMonths(id) ==
    LET kept == recent_schedules(HistoryEntries(id))
    IN {AbsMonth(kept[k].year, kept[k].month) : k \in DOMAIN kept}

(* the months with a saved schedule among the three months before the     *)
(* target month, which are the months the page reads                       *)
(* (schedules_page.rs:223)                                                 *)
RecordedBefore(year, month) ==
    {AbsMonth(row.year, row.month) : row \in
       {r \in DOMAIN schedules_table :
          /\ AbsMonth(r.year, r.month) < AbsMonth(year, month)
          /\ AbsMonth(r.year, r.month) >= AbsMonth(year, month) - 3}}

MostRecent(months, n) ==
    {m \in months : Cardinality({x \in months : x > m}) < n}

(* the scheduler works on the list that get_past_schedules built from the  *)
(* table                                                                   *)
HistoryIsAsRead ==
    gen_call # None =>
      \A e \in DOMAIN employees :
        LET entries == HistoryEntries(employees[e].id)
        IN past_schedules[employees[e].id]
             = [k \in DOMAIN entries |-> entries[k].days]

(* C6: the history list that get_past_schedules supplies to                *)
(* generate_balanced_schedule is chronological, oldest month first: of any *)
(* two prior months in the list the earlier month has the smaller index.   *)
C6_HistoryOldestFirst ==
    gen_call # None =>
      \A e \in DOMAIN employees :
        LET entries == HistoryEntries(employees[e].id)
        IN \A a, b \in DOMAIN entries :
             AbsMonth(entries[a].year, entries[a].month)
               < AbsMonth(entries[b].year, entries[b].month)
             => a < b

(* a generation whose history list holds at least two prior months *)
C6_Witness ==
    /\ gen_call # None
    /\ \E e \in DOMAIN employees : Len(HistoryEntries(employees[e].id)) >= 2

(* C7: in a generation from the schedules page for month M the months that *)
(* contribute to an employee's repetition score are the (at most) 2 most   *)
(* recent recorded months before M; with M-1, M-2 and M-3 saved these are  *)
(* M-1 and M-2.                                                            *)
C7_TwoMostRecentMonths ==
    gen_call # None =>
      \A e \in DOMAIN employees :
        ContributingMonths(employees[e].id)
          = MostRecent(RecordedBefore(gen_call[1].year, gen_call[1].month),
                       lookback_limit)

(* a generation for a month whose three prior months are all saved *)
C7_Witness ==
    /\ gen_call # None
    /\ \E e \in DOMAIN employees : Len(HistoryEntries(employees[e].id)) = 3

-----------------------------------------------------------------------------
(* Properties of the phases of generate_schedule *)

AllFixed(emps) == \A k \in DOMAIN emps : emps[k].fixed_days # <<>>

(* C11: for a roster of employees that all have fixed days, the returned   *)
(* schedule has an entry for each of the five weekdays and the roster of a *)
(* weekday is exactly the employees whose fixed_days contain it; a single  *)
(* employee fixed on Tuesday leaves the other four weekdays present and    *)
(* empty.                                                                  *)
C11_FixedOnlyRoster ==
    (pc = "done" /\ AllFixed(employees)) =>
      /\ DOMAIN schedule = Weekday
      /\ \A d \in Weekday :
           /\ Range(schedule[d])
                = {employees[k] : k \in
                     {j \in DOMAIN employees :
                        d \in Range(employees[j].fixed_days)}}
           /\ Len(schedule[d]) = Cardinality(Range(schedule[d]))

C11_Witness ==
    /\ pc = "done"
    /\ Len(employees) = 1
    /\ employees[1].fixed_days = <<"Tuesday">>
    /\ DOMAIN schedule = Weekday
    /\ schedule["Tuesday"] = << employees[1] >>
    /\ \A d \in Weekday \ {"Tuesday"} : schedule[d] = <<>>

-----------------------------------------------------------------------------
(* Properties of the schedules table *)

RowsOf(table, year, month) ==
    {r \in DOMAIN table : r.year = year /\ r.month = month}

RECURSIVE Copies(_, _)
Copies(table, rows) ==
    IF rows = {} THEN 0
    ELSE LET r == CHOOSE x \in rows : TRUE
         IN table[r] + Copies(table, rows \ {r})

RowCount(table, year, month) == Copies(table, RowsOf(table, year, month))

(* C12: after any sequence of save_schedule_to_db, delete_all_schedules    *)
(* and load_schedule_from_db calls the table holds at most one row per     *)
(* (year, month), and load_schedule_from_db(year, month) gives the         *)
(* schedule of the most recent save for that pair since the last clear, or *)
(* none without such a save; a save to another pair does not change it.    *)
C12_InsertOrReplace ==
    \A key \in DbKeys :
      /\ RowCount(schedules_table, key[1], key[2]) <= 1
      /\ load_schedule_from_db(schedules_table, key[1], key[2])
           = IF key \in DOMAIN saved_since_clear
             THEN Some(saved_since_clear[key])
             ELSE None

(* the schedule of a pair was loaded, replaced and loaded again, with a    *)
(* row of the other pair in the table                                      *)
C12_Witness ==
    /\ Len(load_results) = 2
    /\ load_results[1].year = 2025 /\ load_results[1].month = 12
    /\ load_results[2].year = 2025 /\ load_results[2].month = 12
    /\ load_results[1].returned # None
    /\ load_results[2].returned # None
    /\ load_results[1].returned # load_results[2].returned
    /\ load_results[2].returned = Some(saved_since_clear[<<2025, 12>>])
    /\ RowCount(schedules_table, 2026, 1) = 1

-----------------------------------------------------------------------------
(* Properties of the edited schedule *)

NoRepeatedId(sched) ==
    \A d \in DOMAIN sched :
      \A a, b \in DOMAIN sched[d] : a # b => sched[d][a].id # sched[d][b].id

(* C13: starting from a schedule without a repeated id on any weekday,     *)
(* after any sequence of handle_update_schedule(emp_id, new_days) edits no *)
(* weekday's roster holds the same employee id twice.                      *)
C13_EditKeepsNoDuplicate ==
    current_schedule # None => NoRepeatedId(current_schedule[1])

(* an edit has kept an employee on Monday and put them on Tuesday next to  *)
(* the employee already there                                              *)
C13_Witness ==
    /\ current_schedule # None
    /\ error_message = Some("Schedule updated")
    /\ DOMAIN current_schedule[1] = Weekday
    /\ \E k \in DOMAIN current_schedule[1]["Monday"] :
         current_schedule[1]["Monday"][k].id = 1
    /\ Len(current_schedule[1]["Tuesday"]) = 2
    /\ NoRepeatedId(current_schedule[1])

-----------------------------------------------------------------------------
(* Properties of two interleaved calls *)

(* the schedules a call can return when it runs from c on its own *)
RECURSIVE ReturnableSchedules(_)
ReturnableSchedules(c) ==
    IF c.pc = "done" THEN {c.schedule}
    ELSE UNION {ReturnableSchedules(n) : n \in generate_schedule_steps(c)}

(* a step changes the arguments and locals of one call only, and as a step *)
(* of that call on its own does                                            *)
StepOfOneCall ==
    /\ CallState' # CallState =>
         /\ other' = other
         /\ CallState' \in generate_schedule_steps(CallState)
    /\ other' # other =>
         /\ CallState' = CallState
         /\ other'[1] \in generate_schedule_steps(other[1])

(* whatever the other call has done, a call can take every step it can     *)
(* take on its own                                                         *)
EveryStepPossible ==
    /\ \A n \in generate_schedule_steps(CallState) :
         ENABLED (generate_schedule /\ CallState' = n)
    /\ \A n \in generate_schedule_steps(other[1]) :
         ENABLED (other_generate_schedule /\ other' = Some(n))

ReturnedAsAlone ==
    /\ pc = "done" =>
         schedule \in ReturnableSchedules(StartCall(employees, past_schedules))
    /\ other[1].pc = "done" =>
         other[1].schedule
           \in ReturnableSchedules(StartCall(other[1].employees,
                                             other[1].past_schedules))

(* C14: two generation calls whose steps interleave in any order do not    *)
(* interfere: a step of one call leaves the schedule, the day-load and the *)
(* other locals of the other call as they are, each call can always take   *)
(* the steps it can take alone and no others, and so returns the schedules *)
(* it can return alone.                                                    *)
C14_CallsDoNotInterfere ==
    /\ [][StepOfOneCall]_vars
    /\ [](EveryStepPossible /\ ReturnedAsAlone)

(* both calls have returned, with different schedules: the first has       *)
(* employee 1 on Monday, the second, whose history has Monday, has not     *)
C14_Witness ==
    /\ other # None
    /\ pc = "done"
    /\ other[1].pc = "done"
    /\ "Monday" \in DaysOf(schedule, 1)
    /\ "Monday" \notin DaysOf(other[1].schedule, 1)
    /\ DaysOf(schedule, 3) # DaysOf(other[1].schedule, 3)

-----------------------------------------------------------------------------
(* Properties of find_best_day_combination *)

(* a call of find_best_day_combination has returned *)
SelReturned == sel # None /\ sel.best_combo # None

(* the exact total_score of every candidate of the call held in sel *)
SelScores ==
    combo_scores(sel.shuffled_combos, sel.day_counts, sel.employee,
                 sel.past_schedules)

PositionIn(combos, combo) == CHOOSE k \in DOMAIN combos : combos[k] = combo

(* the returned candidate has the least total_score of all candidates *)
SelectedIsMinimal ==
    SelReturned =>
      \A c \in Range(sel.shuffled_combos) :
        SelScores[sel.best_combo[1]] <= SelScores[c]

(* C15: find_best_day_combination returns a candidate whose total_score    *)
(* (squared deviations of the simulated day-loads from their mean, plus 3  *)
(* times the repetition frequencies of its days) is minimal over all       *)
(* candidates, and of the candidates tied at the minimum the one earliest  *)
(* in the shuffled order.                                                  *)
C15_MinimalScoreEarliestTie ==
    SelReturned =>
      /\ \A c \in Range(sel.shuffled_combos) :
           SelScores[sel.best_combo[1]] <= SelScores[c]
      /\ \A k \in DOMAIN sel.shuffled_combos :
           SelScores[sel.shuffled_combos[k]] = SelScores[sel.best_combo[1]]
             => PositionIn(sel.shuffled_combos, sel.best_combo[1]) <= k

(* a call has returned for candidates of which several are tied at the     *)
(* least total_score                                                       *)
C15_Witness ==
    /\ SelReturned
    /\ \E c \in Range(sel.shuffled_combos) :
         /\ c # sel.best_combo[1]
         /\ SelScores[c] = SelScores[sel.best_combo[1]]
    /\ \E c \in Range(sel.shuffled_combos) :
         SelScores[c] > SelScores[sel.best_combo[1]]

DayIndex(d) == CHOOSE k \in DOMAIN weekdays : weekdays[k] = d

SixPairs ==
    { {"Monday", "Wednesday"}, {"Monday", "Thursday"}, {"Monday", "Friday"},
      {"Tuesday", "Thursday"}, {"Tuesday", "Friday"},
      {"Wednesday", "Friday"} }

(* C16: for every day-load, history and shuffle, find_best_day_combination *)
(* returns one combination, a member of the list it was given; for         *)
(* required_days = 2 it is one of the six catalog pairs and never a pair   *)
(* of adjacent weekdays; a result is returned also when all candidates     *)
(* have the same score.                                                    *)
C16_ResultFromCatalog ==
    SelReturned =>
      /\ Len(sel.best_combo) = 1
      /\ sel.best_combo[1] \in Range(sel.shuffled_combos)
      /\ sel.employee.required_days = 2 =>
           /\ Len(sel.best_combo[1].days) = 2
           /\ Range(sel.best_combo[1].days) \in SixPairs
           /\ \A a, b \in Range(sel.best_combo[1].days) :
                DayIndex(a) - DayIndex(b) \notin {1, -1}

(* a pair was returned for candidates that all have the same score *)
C16_Witness ==
    /\ SelReturned
    /\ sel.employee.required_days = 2
    /\ Len(sel.shuffled_combos) = 6
    /\ \A c, e \in Range(sel.shuffled_combos) : SelScores[c] = SelScores[e]
    /\ Range(sel.best_combo[1].days) \in SixPairs

(* the history list of the employee of the call held in sel; none reads as *)
(* the empty list                                                          *)
SelHistory ==
    IF sel.employee.id \in DOMAIN sel.past_schedules
    THEN sel.past_schedules[sel.employee.id]
    ELSE <<>>

(* 8 times the frequency the claim gives weekday d: 1.0 for the first of   *)
(* the last two entries and 0.625 for the second, 1.0 for a single entry   *)
ClaimedFrequency(history, d) ==
    LET len == Len(history)
    IN IF len = 0 THEN 0
       ELSE IF len = 1 THEN (IF d \in history[1] THEN 8 ELSE 0)
       ELSE (IF d \in history[len - 1] THEN 8 ELSE 0)
            + (IF d \in history[len] THEN 5 ELSE 0)

(* C17: the repetition frequency of an employee is built from the last     *)
(* min(2, len) entries of their history list only: position i of the n     *)
(* kept entries adds 1 - 0.75*i/n to every weekday in it (1.0 then 0.625   *)
(* for n = 2, 1.0 for n = 1), earlier entries add nothing, and without a   *)
(* history entry or with an empty list every weekday has frequency 0.      *)
C17_FrequencyFromLastTwo ==
    sel # None =>
      \A d \in Weekday :
        past_day_frequencies(sel.employee, sel.past_schedules)[d]
          = ClaimedFrequency(SelHistory, d)

(* a call has returned for a history of three entries whose first entry    *)
(* holds a weekday the last two do not                                     *)
C17_Witness ==
    /\ SelReturned
    /\ Len(SelHistory) = 3
    /\ "Monday" \in SelHistory[1]
    /\ past_day_frequencies(sel.employee, sel.past_schedules)["Monday"] = 0
    /\ past_day_frequencies(sel.employee, sel.past_schedules)["Wednesday"] = 8
    /\ past_day_frequencies(sel.employee, sel.past_schedules)["Friday"] = 5

(* C18: more recent schedules have higher weight: with the history list   *)
(* read oldest first and two months kept, a weekday worked only in the     *)
(* more recent kept month has a strictly larger repetition frequency than  *)
(* a weekday worked only in the older kept month.                          *)
C18_RecentWeighsMore ==
    (sel # None /\ Len(SelHistory) >= 2) =>
      LET older == SelHistory[Len(SelHistory) - 1]
          recent == SelHistory[Len(SelHistory)]
          frequencies == past_day_frequencies(sel.employee, sel.past_schedules)
      IN \A d_recent \in recent \ older, d_older \in older \ recent :
           frequencies[d_recent] > frequencies[d_older]

(* a call has returned for a history of two months with a weekday worked   *)
(* only in the older and one worked only in the more recent month          *)
C18_Witness ==
    /\ SelReturned
    /\ SelHistory = << {"Tuesday"}, {"Monday"} >>

-----------------------------------------------------------------------------
(* Properties of the order of the assignments *)

IsAssigned(e) == DaysOf(schedule, e.id) # {}

(* C19: quota buckets are processed in strictly descending order of        *)
(* required_days: whenever a flexible employee is assigned, every flexible *)
(* employee with a larger required_days that has a catalog entry has been  *)
(* assigned before.                                                        *)
C19_LargerQuotaFirst ==
    \A a, b \in DOMAIN employees :
      (/\ IsFlexible(employees[a]) /\ IsFlexible(employees[b])
       /\ employees[a].required_days > employees[b].required_days
       /\ ~ IsUnmapped(employees[a])
       /\ IsAssigned(employees[b])) =>
        IsAssigned(employees[a])

(* between two assignments: the employee with required_days = 5, second in *)
(* the roster, is assigned and the one with required_days = 1 is not yet   *)
C19_Witness ==
    /\ pc = "process_flexible"
    /\ Len(employees) = 2
    /\ IsFlexible(employees[1]) /\ employees[1].required_days = 1
    /\ IsFlexible(employees[2]) /\ employees[2].required_days = 5
    /\ IsAssigned(employees[2])
    /\ ~ IsAssigned(employees[1])

FixedCountOn(d) ==
    Cardinality({k \in DOMAIN employees : d \in Range(employees[k].fixed_days)})

(* C20: all fixed-day insertions happen before the first flexible          *)
(* selection: whenever find_best_day_combination can run, the day-load it  *)
(* reads counts every fixed employee of the roster on each of their fixed  *)
(* weekdays, wherever they stand in the roster.                            *)
C20_FixedBeforeFlexible ==
    pc = "process_flexible" =>
      \A d \in Weekday :
        /\ \A k \in DOMAIN employees :
             d \in Range(employees[k].fixed_days) =>
               CountOn(schedule, d, employees[k].id) = 1
        /\ day_counts[d] >= FixedCountOn(d)
        /\ day_counts[d] = Len(schedule[d])

(* the first selection is about to run for a flexible employee that stands *)
(* before a fixed employee in the roster, and the day-load has the fixed   *)
(* employee's Tuesday                                                      *)
C20_Witness ==
    /\ pc = "process_flexible"
    /\ Len(employees) = 2
    /\ IsFlexible(employees[1]) /\ employees[1].required_days = 2
    /\ employees[2].fixed_days = <<"Tuesday">>
    /\ key_idx = 1 /\ emp_idx = 1
    /\ day_counts = [EmptyDayCounts EXCEPT !["Tuesday"] = 1]
    /\ ~ IsAssigned(employees[1])

-----------------------------------------------------------------------------
(* Properties of the assignment step *)

(* C21: at every step of generation the day-load map has exactly the five  *)
(* weekdays as keys and the value of each weekday is the number of         *)
(* employees on that weekday's roster.                                     *)
C21_DayLoadIsRosterLength ==
    pc \in {"process_fixed", "process_flexible", "done"} =>
      /\ DOMAIN day_counts = Weekday
      /\ DOMAIN schedule = Weekday
      /\ \A d \in Weekday : day_counts[d] = Len(schedule[d])

(* a fixed_days list that repeats Monday was walked, and a flexible        *)
(* employee on all five weekdays was assigned after it                     *)
C21_Witness ==
    /\ pc = "done"
    /\ Len(employees) = 2
    /\ HasRepeatedFixedDay(employees[1])
    /\ IsFlexible(employees[2]) /\ employees[2].required_days = 5
    /\ day_counts = [d \in Weekday |->
                       IF d \in {"Monday", "Wednesday"} THEN 2 ELSE 1]

(* C22: the assignment step is idempotent: for an employee whose id is on  *)
(* the weekday's roster it leaves the schedule and the day-load as they    *)
(* are, and applying it twice gives what applying it once gives.           *)
C22_AssignIdempotent ==
    pc \in {"process_fixed", "process_flexible", "done"} =>
      \A k \in DOMAIN employees :
        \A d \in Weekday :
          LET st   == [schedule |-> schedule, day_counts |-> day_counts]
              once == AssignDay(st, employees[k], d)
          IN /\ CountOn(schedule, d, employees[k].id) >= 1 => once = st
             /\ AssignDay(once, employees[k], d) = once

(* the step ran twice for the first employee and Monday, and another       *)
(* employee came on Monday's roster after it                               *)
C22_Witness ==
    /\ Len(employees) = 2
    /\ employees[1].fixed_days = <<"Monday", "Wednesday", "Monday">>
    /\ i > 1
    /\ Len(schedule["Monday"]) = 2
    /\ schedule["Monday"][1].id = employees[1].id
    /\ day_counts["Monday"] = 2

-----------------------------------------------------------------------------
(* Properties of the selection for required_days = 1 without history *)

ZeroFrequencies(employee) ==
    \A d \in Weekday : past_day_frequencies(employee, past_schedules)[d] = 0

(* the step of process_flexible_employees that selects for and assigns the *)
(* employee at grouped_employees[keys[key_idx]][emp_idx]                   *)
IsSelectionStep ==
    /\ pc = "process_flexible"
    /\ key_idx <= Len(keys)
    /\ key_idx' = key_idx
    /\ emp_idx' = emp_idx + 1

PlacedOnMinimalDay ==
    IsSelectionStep =>
      LET employee == grouped_employees[keys[key_idx]][emp_idx]
      IN (employee.required_days = 1 /\ ZeroFrequencies(employee)) =>
           /\ \E d \in Weekday : Len(schedule'[d]) = Len(schedule[d]) + 1
           /\ \A d \in Weekday :
                Len(schedule'[d]) # Len(schedule[d]) =>
                  \A e \in Weekday : day_counts[d] <= day_counts[e]

OnlySinglesWithoutHistory ==
    /\ pc \in {"process_fixed", "process_flexible", "done"}
    /\ \A k \in DOMAIN employees :
         /\ IsFlexible(employees[k])
         /\ employees[k].required_days = 1
         /\ ZeroFrequencies(employees[k])

(* C23: a flexible employee with required_days = 1 and zero repetition     *)
(* frequency on every weekday is placed on a weekday whose day-load is     *)
(* minimal at the time of the selection; and for a roster of only such     *)
(* employees the largest day-load exceeds the smallest by at most 1 after  *)
(* every assignment.                                                       *)
C23_SingleGoesToMinimalDay ==
    /\ [][PlacedOnMinimalDay]_vars
    /\ [](OnlySinglesWithoutHistory =>
            MaxLoad(schedule) - MinLoad(schedule) <= 1)

(* a fixed employee holds Monday and Wednesday; the flexible employee       *)
(* with required_days = 1 was placed on a weekday the fixed one is not on  *)
C23_Witness ==
    /\ pc = "done"
    /\ Len(employees) = 2
    /\ employees[1].fixed_days = <<"Monday", "Wednesday", "Monday">>
    /\ IsFlexible(employees[2]) /\ employees[2].required_days = 1
    /\ ZeroFrequencies(employees[2])
    /\ DaysOf(schedule, employees[2].id) = {"Friday"}

-----------------------------------------------------------------------------
(* Termination of generate_schedule and the calls of the selector *)

CatalogEntriesNonEmpty ==
    \A n \in DOMAIN ScheduleGenerator.day_combinations :
      /\ ScheduleGenerator.day_combinations[n] # <<>>
      /\ \A k \in DOMAIN ScheduleGenerator.day_combinations[n] :
           Len(ScheduleGenerator.day_combinations[n][k].days) = n

(* the places <<key, position>> of the buckets the selector is called for  *)
Positions ==
    { p \in UNION { {k} \X DOMAIN grouped_employees[keys[k]]
                      : k \in DOMAIN keys } :
        day_combinations_get(keys[p[1]]) # None }

(* the places the loops of process_flexible_employees have gone through    *)
Passed ==
    { p \in Positions :
        \/ p[1] < key_idx
        \/ p[1] = key_idx /\ p[2] < emp_idx }

SelectorHasCandidates ==
    IsSelectionStep =>
      /\ day_combinations_get(keys[key_idx]) # None
      /\ day_combinations_get(keys[key_idx])[1] # <<>>
      /\ grouped_employees[keys[key_idx]][emp_idx].required_days
           = keys[key_idx]

OnePlaceAtATime ==
    pc = "process_flexible" =>
      IF IsSelectionStep
      THEN /\ <<key_idx, emp_idx>> \in Positions \ Passed
           /\ Passed' = Passed \cup { <<key_idx, emp_idx>> }
      ELSE Passed' = Passed

EveryFlexibleEmployeeOnce ==
    pc = "done" =>
      /\ Passed = Positions
      /\ \A k \in DOMAIN employees :
           (IsFlexible(employees[k]) /\ ~ IsUnmapped(employees[k])) =>
             Cardinality({ p \in Positions :
                             grouped_employees[keys[p[1]]][p[2]]
                               = employees[k] })
               = Cardinality({ j \in DOMAIN employees :
                                 employees[j] = employees[k] })

(* C24: generate_schedule terminates and never takes the first element of  *)
(* an empty candidate list: every catalog entry is non-empty, the selector *)
(* is called only for a required_days value with a catalog entry, and it   *)
(* is called exactly once for each flexible employee.                      *)
C24_TerminatesWithCandidates ==
    /\ <>(pc = "done")
    /\ [](CatalogEntriesNonEmpty /\ EveryFlexibleEmployeeOnce)
    /\ [][SelectorHasCandidates /\ OnePlaceAtATime]_vars

(* the call returned after one selection for required_days = 2 and none   *)
(* for the employee with required_days = 4, which has no catalog entry     *)
C24_Witness ==
    /\ pc = "done"
    /\ Len(employees) = 2
    /\ employees[1] = Employee(1, 4, <<>>)
    /\ employees[2] = Employee(2, 2, <<>>)
    /\ Cardinality(Positions) = 1
    /\ Passed = Positions
    /\ Cardinality(DaysOf(schedule, 2)) = 2

-----------------------------------------------------------------------------
(* Properties of the effect of an edit *)

DaysIn(sched, id) ==
    {d \in DOMAIN sched : \E k \in DOMAIN sched[d] : sched[d][k].id = id}

IdsIn(sched) ==
    UNION { {sched[d][k].id : k \in DOMAIN sched[d]} : d \in DOMAIN sched }

InRoster(emp_id) ==
    \E k \in DOMAIN employees_signal : employees_signal[k].id = emp_id

EffectOfEdit(emp_id, new_days_set) ==
    LET after == schedule_after_update(current_schedule, emp_id, new_days_set)
    IN IF current_schedule # None /\ InRoster(emp_id)
       THEN /\ after # None
            /\ DaysIn(after[1], emp_id) = new_days_set
            /\ \A id \in (IdsIn(current_schedule[1]) \cup IdsIn(after[1]))
                           \ {emp_id} :
                 DaysIn(after[1], id) = DaysIn(current_schedule[1], id)
       ELSE after = current_schedule

OnlyScheduleAndMessageChange ==
    UNCHANGED <<schedules_table, selected_year, selected_month,
                is_generating, tasks, today, gen_call, gen_vars>>

(* C25: handle_update_schedule(emp_id, new_days) for an employee of the    *)
(* roster with a schedule loaded puts that employee on exactly the         *)
(* weekdays of new_days and leaves the weekdays of every other employee    *)
(* as they were; for an employee not in the roster, or without a schedule, *)
(* the schedule stays as it is; nothing but the schedule and the message   *)
(* changes.                                                                *)
C25_EditEffectAndFrame ==
    /\ [](\A emp_id \in 1..3, new_days_set \in SUBSET Weekday :
            EffectOfEdit(emp_id, new_days_set))
    /\ [][OnlyScheduleAndMessageChange]_vars

(* the loaded schedule had no Tuesday entry; the edit put employee 2 on    *)
(* Tuesday only and the employee since deleted kept Monday and Thursday    *)
C25_Witness ==
    /\ current_schedule # None
    /\ error_message = Some("Schedule updated")
    /\ DOMAIN current_schedule[1] = {"Monday", "Tuesday", "Thursday"}
    /\ DaysIn(current_schedule[1], 2) = {"Tuesday"}
    /\ DaysIn(current_schedule[1], 3) = {"Monday", "Thursday"}
    /\ DaysIn(current_schedule[1], 1) = {"Thursday"}

-----------------------------------------------------------------------------
(* Properties of the Generate button *)

PendingGenerations ==
    Cardinality({k \in DOMAIN tasks : tasks[k].kind = "generate"})
    + (IF gen_call # None THEN 1 ELSE 0)

(* C26: a click on Generate while is_generating is true starts no second   *)
(* task, so at most one generation task is pending at any time, and every  *)
(* started generation sets is_generating back to false in the end, on the  *)
(* rejection of a past month as on success.                                *)
C26_OneGenerationAtATime ==
    /\ [](PendingGenerations <= 1)
    /\ [](is_generating <=> PendingGenerations = 1)
    /\ [][PendingGenerations' > PendingGenerations => ~ is_generating]_vars
    /\ (is_generating ~> ~ is_generating)

(* a generation for the current month has ended with a schedule, the flag  *)
(* is down again and another task of the page is still pending             *)
C26_Witness ==
    /\ ~ is_generating
    /\ PendingGenerations = 0
    /\ current_schedule # None
    /\ selected_year = 2025 /\ selected_month = 11
    /\ schedules_table = <<>>
    /\ Len(tasks) = 1

-----------------------------------------------------------------------------
(* Properties of the refusal of past months *)

IsPastMonth(year, month) ==
    AbsMonth(year, month) < AbsMonth(today[1], today[2])

(* the spawned generation task at tasks[k] runs in this step *)
GenerateTaskRuns(k) ==
    /\ pc = "idle"
    /\ tasks[k].kind = "generate"
    /\ tasks' = RemoveAt(tasks, k)

RefusedOrStarted ==
    \A k \in DOMAIN tasks :
      GenerateTaskRuns(k) =>
        IF IsPastMonth(tasks[k].year, tasks[k].month)
        THEN /\ error_message' =
                  Some("Cannot generate schedules for past months")
             /\ pc' = "idle"
             /\ gen_call' = None
             /\ current_schedule' = current_schedule
        ELSE /\ pc' = "process_fixed"
             /\ gen_call' = Some([year |-> tasks[k].year,
                                  month |-> tasks[k].month])
             /\ employees' = employees_signal

(* the schedule a finished generation leaves is the one generate_schedule  *)
(* returned for the roster of the page                                     *)
FreshScheduleReplaces ==
    (gen_call # None /\ gen_call' = None) =>
      /\ pc = "done"
      /\ employees = employees_signal
      /\ current_schedule' = Some(schedule)
      /\ \A k \in DOMAIN employees_signal :
           LET e == employees_signal[k]
           IN IF IsFlexible(e)
              THEN Cardinality(DaysOf(schedule, e.id)) = e.required_days
              ELSE DaysOf(schedule, e.id) = Range(e.fixed_days)

SchedulerOnlyForCurrentOrLater ==
    /\ pc # "idle" => gen_call # None
    /\ gen_call # None => ~ IsPastMonth(gen_call[1].year, gen_call[1].month)

(* C27: generation is refused for past months: for a selected month before *)
(* the current calendar month the task sets an error message, does not     *)
(* call the scheduler and leaves current_schedule as it is; for the        *)
(* current month or a later one current_schedule is replaced by a freshly  *)
(* generated schedule.                                                     *)
C27_PastMonthsRefused ==
    /\ [][RefusedOrStarted /\ FreshScheduleReplaces]_vars
    /\ []SchedulerOnlyForCurrentOrLater

(* Generate was clicked with October 2025 selected, the month before the   *)
(* current one, and the task has refused                                   *)
C27_Witness ==
    /\ selected_year = 2025 /\ selected_month = 10
    /\ error_message = Some("Cannot generate schedules for past months")
    /\ ~ is_generating
    /\ pc = "idle"
    /\ current_schedule = None
    /\ tasks = <<>>

-----------------------------------------------------------------------------
(* Properties of the month the shown schedule belongs to *)

IsSelected(year, month) == year = selected_year /\ month = selected_month

(* a finished generation delivers to the month that is selected *)
GeneratedForSelected ==
    (gen_call # None /\ gen_call' = None) =>
      IsSelected(gen_call[1].year, gen_call[1].month)

(* a load task that sets the schedule has loaded the month that is         *)
(* selected                                                                *)
LoadedForSelected ==
    \A k \in DOMAIN tasks :
      (/\ pc = "idle"
       /\ tasks[k].kind = "load"
       /\ tasks' = RemoveAt(tasks, k)
       /\ current_schedule' # current_schedule) =>
        IsSelected(tasks[k].year, tasks[k].month)

(* C28: under any interleaving of month changes, load tasks, the spawned   *)
(* generation task and Save, a non-empty current_schedule belongs to the   *)
(* selected (year, month): whatever sets it has loaded it for that pair or *)
(* generated it for that pair, so that Save does not store under the       *)
(* selected pair a schedule generated for another month.                   *)
C28_ScheduleOfSelectedMonth ==
    [][GeneratedForSelected /\ LoadedForSelected]_vars

(* the scheduler has returned inside a generation task for a month that is *)
(* no longer the selected one                                              *)
C28_Witness ==
    /\ gen_call # None
    /\ pc = "done"
    /\ ~ IsSelected(gen_call[1].year, gen_call[1].month)

-----------------------------------------------------------------------------
(* Properties of get_past_schedules *)

LooksUpMonthBefore(year, month, k) ==
    LET m == PastMonth(year, month, k)
    IN /\ m.month \in 1..12
       /\ AbsMonth(m.year, m.month) = AbsMonth(year, month) - k
       /\ IF month - k < 1
          THEN m.month = month + 12 - k /\ m.year = year - 1
          ELSE m.month = month - k /\ m.year = year

(* the list the history of id is to be: for k = 1, 2, 3 in this order, the *)
(* weekdays of id in the schedule saved for the k-th month before          *)
RECURSIVE ExpectedHistory(_, _)
ExpectedHistory(id, k) ==
    IF k > 3 THEN <<>>
    ELSE LET key == MonthOfAbs(AbsMonth(selected_year, selected_month) - k)
         IN (IF key \in DOMAIN saved_since_clear
             THEN << DaysOf(saved_since_clear[key], id) >>
             ELSE <<>>)
            \o ExpectedHistory(id, k + 1)

(* C29: for every target month in 1..12 and every i in 1..3,               *)
(* get_past_schedules looks up the calendar month exactly i months before  *)
(* the target, in the previous year when month - i < 1; a month without a  *)
(* saved schedule adds no entry to the history of an employee, and a saved *)
(* month in which the employee is on no day adds an empty set.             *)
C29_PastMonthsLookedUp ==
    /\ \A month \in 1..12, k \in 1..3 :
         LooksUpMonthBefore(selected_year, month, k)
    /\ past_schedules # <<>> =>
         /\ DOMAIN past_schedules
              = {employees_signal[k].id : k \in DOMAIN employees_signal}
         /\ \A id \in DOMAIN past_schedules :
              past_schedules[id] = ExpectedHistory(id, 1)

(* the target is February 2026: January holds the first employee on        *)
(* Monday, December 2025 is not saved and November 2025 is saved without   *)
(* the first employee                                                      *)
C29_Witness ==
    /\ selected_year = 2026 /\ selected_month = 2
    /\ past_schedules # <<>>
    /\ past_schedules[1] = << {"Monday"}, {} >>
    /\ past_schedules[2] = << {"Tuesday"}, {"Tuesday"} >>
    /\ <<2025, 12>> \notin DOMAIN saved_since_clear

-----------------------------------------------------------------------------
(* Properties of the CSV export *)

ExportedRows == SubSeq(csv_export[1].csv_data, 3, Len(csv_export[1].csv_data))

(* C30: in the CSV export of every schedule, also of one with two distinct *)
(* employees of the same name, the row of an employee has an X in the      *)
(* column of a weekday exactly when that employee is on that weekday's     *)
(* roster, there is one row for each distinct scheduled employee, and the  *)
(* count in each weekday's header cell is the length of its roster.        *)
C30_CsvMatchesSchedule ==
    csv_export # None =>
      LET sched == current_schedule[1]
          refs == csv_export[1].all_employee_refs
      IN /\ Len(ExportedRows) = Cardinality(unique_employees(sched))
         /\ \A e \in unique_employees(sched) :
              Cardinality({k \in DOMAIN refs : refs[k] = e}) = 1
         /\ \A k \in DOMAIN ExportedRows :
              \A j \in DOMAIN weekdays :
                ExportedRows[k][j + 1] = "X"
                  <=> refs[k] \in Range(sched[weekdays[j]])
         /\ \A j \in DOMAIN weekdays :
              csv_export[1].csv_data[2][j + 1]
                = format_count(Len(sched[weekdays[j]]))

(* the export of a schedule with the two employees of the same name on     *)
(* different weekdays                                                      *)
C30_Witness ==
    /\ csv_export # None
    /\ DaysOf(current_schedule[1], 1) = {"Monday"}
    /\ DaysOf(current_schedule[1], 3) = {"Tuesday"}
    /\ DaysOf(current_schedule[1], 2) = {"Tuesday"}
    /\ Len(ExportedRows) = 3

(* without two employees of the same name on the schedule the export is    *)
(* as the schedule                                                         *)
CsvMatchesWithDistinctNames ==
    (/\ csv_export # None
     /\ \A a, b \in unique_employees(current_schedule[1]) :
          name(a) = name(b) => a = b) =>
      C30_CsvMatchesSchedule

====
